---- MODULE Spec2Model ----
(***************************************************************************)
(* Model of the shared bitcoin-treasury analysis pipeline                  *)
(* (src/shared_utils/bitcoin_analysis.py and its callers).                 *)
(*                                                                         *)
(* A record table (pandas DataFrame) is a sequence of rows; every row      *)
(* carries its index label `idx`, as a DataFrame row does, so that a view  *)
(* (valid_data, unique_data) is again a table whose rows keep the labels   *)
(* of the table they were selected from.                                   *)
(*                                                                         *)
(* Quantities are integers.  Positive quantities are powers of ten, so     *)
(* that log10 is exact on them.  NaN stands for a missing value.           *)
(***************************************************************************)
EXTENDS Integers, Sequences, FiniteSets, TLC

VARIABLES
    pc,            \* position of the running function
    df,            \* the record table given to the function
    valid_data,    \* 'valid' view returned by filter_and_deduplicate_data
    unique_data,   \* 'unique' view returned by filter_and_deduplicate_data
    duplicates,    \* duplicate count returned by filter_and_deduplicate_data
    raised,        \* exception that ended the function, "none" if none
    runs,          \* number of completed cleaner calls
    entry,         \* the function that was called
    chart_generators, \* the chart_generators argument of run_company_analysis
    logs,          \* result of perform_log_transformation (unique view)
    reg,           \* result of fit_power_law_regression and calculate_statistics
    step,          \* 1-based position in the sequence of chart steps
    attempted,     \* chart steps that were called, in call order
    failed,        \* chart steps whose exception was caught and reported
    summary,       \* print_detailed_summary was reached
    data_url,      \* value of the DATA_URL environment variable
    primary,       \* what the request to data_url results in
    fallback_file_path, \* the fallback_file_path argument
    file,          \* what is at fallback_file_path
    data,          \* the payload held by load_strategy_tracker_stats
    source,        \* where data was read from
    raised_at,     \* the statement that raised
    hist_data,     \* the entries of the arrays of historicalData, in feed order
    columns,       \* the optional column arguments of load_bitcoin_data_from_sheet
    values,        \* the rows the sheet request returned
    sheet_df,      \* the table held by load_bitcoin_data_from_sheet
    sheet_error,   \* the exception load_bitcoin_data_from_sheet raised
    chart_df,      \* the table given to a chart function
    config,        \* the config dictionary given to a chart function
    projection,    \* yield and projected series of create_stock_nav_chart
    mnav_report,   \* mNAV series and the values create_mnav_chart reports
    crossing,      \* crossing scan of create_stacked_mc_btc_nav_chart
    local_df,      \* the table a chart function computes over (df, df_filtered)
    sats,          \* the series create_btc_per_share_chart plots, by column
    saved,         \* plt.savefig was reached in the chart function called last
    calls,         \* number of steps called on chart_df so far
    environ,       \* the S3 environment variables
    client,        \* what boto3.client results in
    png_files,     \* the PNG files found, each with what upload_file does
    attempts,      \* the files upload_file was called for, in call order
    uploaded_files, \* uploaded_files of upload_company_charts
    failed_files,  \* failed_files of upload_company_charts
    upload_result, \* what the called upload function returned
    exit_status    \* exit status of the process that ran the analysis

cleaner_vars == <<df, valid_data, unique_data, duplicates, runs>>

run_vars == <<entry, chart_generators, logs, reg, step, attempted, failed, summary>>

load_vars == <<data_url, primary, fallback_file_path, file, data, source, raised_at,
               hist_data>>

sheet_vars == <<columns, values, sheet_df, sheet_error>>

chart_vars == <<chart_df, config, projection, mnav_report, crossing, local_df,
                sats, saved, calls>>

upload_vars == <<environ, client, png_files, attempts, uploaded_files,
                 failed_files, upload_result>>

main_vars == <<exit_status>>

vars == <<pc, raised, cleaner_vars, run_vars, load_vars, sheet_vars,
          chart_vars, upload_vars, main_vars>>

(***************************************************************************)
(* Bounds                                                                  *)
(***************************************************************************)
\* largest number of rows of an input record table
MaxRows == 3
\* largest number of cleaner calls chained on one table
MaxRuns == 2
\* largest number of rows of a table given to an analysis run
MaxRunRows == 2
\* largest number of entries of a chart_generators dictionary
MaxGens == 3

(***************************************************************************)
(* Values                                                                  *)
(***************************************************************************)
\* a missing value (float NaN / None in a numeric column)
NaN == 0 - 1000

\* btc_balance values an input row may carry
BalanceValues == {NaN, 0 - 1, 0, 10, 100}
\* btc_per_diluted_share values an input row may carry
PerShareValues == {NaN, 0, 1, 10}

\* series > 0, element-wise: a comparison with NaN is False
gt0(v) == IF v = NaN THEN FALSE ELSE v > 0

\* series >= 0, element-wise
ge0(v) == IF v = NaN THEN FALSE ELSE v >= 0

\* series.notna(), element-wise
notna(v) == v # NaN

Row(i, b, p) == [idx |-> i, btc_balance |-> b, btc_per_diluted_share |-> p]

\* the values of one input row
RowValues == BalanceValues \X PerShareValues

\* the record table with n rows and a RangeIndex, as a loader builds it,
\* whose row i has the values f[i]
MakeTable(n, f) == [i \in 1..n |-> Row(i, f[i][1], f[i][2])]

\* t is a record table of at most max rows
IsInputTable(t, max) ==
    \E n \in 0..max : \E f \in [1..n -> RowValues] : t = MakeTable(n, f)

(***************************************************************************)
(* filter_and_deduplicate_data                                             *)
(***************************************************************************)
\* the boolean mask of the filter, for one row
ValidMask_ge(r) ==
    /\ ge0(r.btc_balance)
    /\ ge0(r.btc_per_diluted_share)
    /\ notna(r.btc_balance)
    /\ notna(r.btc_per_diluted_share)

ValidMask(r) ==
    /\ gt0(r.btc_balance)
    /\ gt0(r.btc_per_diluted_share)
    /\ notna(r.btc_balance)
    /\ notna(r.btc_per_diluted_share)

\* df[mask].reset_index(drop=True): the selected rows, relabelled 1..n
BooleanIndex_reset(t) ==
    LET v == SelectSeq(t, ValidMask)
    IN  [k \in 1..Len(v) |-> [v[k] EXCEPT !.idx = k]]

\* df[mask]: the rows whose mask is True, in table order
BooleanIndex(t) == SelectSeq(t, ValidMask)

\* the btc_balance values of the rows of t
Balances(t) == { t[i].btc_balance : i \in 1..Len(t) }

\* drop_duplicates(subset=['btc_balance'], keep='last')
RECURSIVE drop_duplicates_last(_)
drop_duplicates_last(t) ==
    IF t = << >> THEN << >>
    ELSE IF Head(t).btc_balance \in Balances(Tail(t))
         THEN drop_duplicates_last(Tail(t))
         ELSE <<Head(t)>> \o drop_duplicates_last(Tail(t))

\* drop_duplicates(subset=['btc_balance'], keep='first'): scan in table
\* order, keep a row iff its btc_balance was not seen before
RECURSIVE DropSeen(_, _)
DropSeen(t, seen) ==
    IF t = << >> THEN << >>
    ELSE IF Head(t).btc_balance \in seen
         THEN DropSeen(Tail(t), seen)
         ELSE <<Head(t)>> \o DropSeen(Tail(t), seen \cup {Head(t).btc_balance})

\* a unique view that keeps every valid row
drop_duplicates_none(t) == t

drop_duplicates(t) == DropSeen(t, {})

\* duplicates counted against the whole table instead of the valid view
CountDuplicates_df(t, v, u) == Len(t) - Len(u)

\* duplicates = len(valid_data) - len(unique_data)
CountDuplicates(t, v, u) == Len(v) - Len(u)

\* a cleaner that indexes the first valid row, so raises on an empty view
CleanerRaises_empty(t) == IF BooleanIndex(t) = << >> THEN "IndexError" ELSE "none"

\* filter_and_deduplicate_data has no raise and no failing call on a table
\* that has the two columns
CleanerRaises(t) == "none"

filter_and_deduplicate_data(t) ==
    LET v == BooleanIndex(t)
        u == drop_duplicates(v)
    IN  [valid_data |-> v,
         unique_data |-> u,
         duplicates |-> CountDuplicates(t, v, u),
         raised |-> CleanerRaises(t)]

(***************************************************************************)
(* perform_log_transformation, fit_power_law_regression,                   *)
(* calculate_statistics                                                    *)
(***************************************************************************)
\* largest exponent of a power of ten in a table
MaxExp == 3

RECURSIVE Pow10(_)
Pow10(e) == IF e = 0 THEN 1 ELSE 10 * Pow10(e - 1)

\* np.log10 of a positive power of ten
log10(v) == CHOOSE e \in 0..MaxExp : Pow10(e) = v

\* np.log10(unique_data[...]): the two log series of the unique view
perform_log_transformation(u) ==
    [log_btc_balance_unique |->
         [k \in 1..Len(u) |-> log10(u[k].btc_balance)],
     log_btc_per_diluted_share_unique |->
         [k \in 1..Len(u) |-> log10(u[k].btc_per_diluted_share)]]

RECURSIVE SumSeq(_)
SumSeq(q) == IF q = << >> THEN 0 ELSE Head(q) + SumSeq(Tail(q))

DotSeq(a, b) == SumSeq([k \in 1..Len(a) |-> a[k] * b[k]])

\* n times the centred cross moment of two series of the same length
Moment(a, b) == Len(a) * DotSeq(a, b) - SumSeq(a) * SumSeq(b)

\* a rational number; a zero denominator is nan
Frac(n, d) == [num |-> n, den |-> d]

\* check_array of LinearRegression.fit accepts a single sample
MinSamples_two(X) == IF Len(X) < 2 THEN "ValueError" ELSE "none"

\* reg.fit(X_unique, y_unique): check_array requires at least one sample
MinSamples(X) == IF Len(X) < 1 THEN "ValueError" ELSE "none"

\* least squares of y on X with an intercept; with one sample (or a
\* constant X) the centred X is zero and the minimum-norm solution has
\* coefficient 0
LinearRegression(X, y) ==
    LET sxx == Moment(X, X)
        sxy == Moment(X, y)
        n   == Len(X)
    IN  IF sxx = 0
        THEN [coef |-> Frac(0, 1), intercept |-> Frac(SumSeq(y), n)]
        ELSE [coef |-> Frac(sxy, sxx),
              intercept |-> Frac(SumSeq(y) * sxx - sxy * SumSeq(X), n * sxx)]

\* r2_score(y_unique, y_pred_unique) of the fitted line: not defined (nan)
\* with fewer than two samples; 1.0 when y is constant and fitted exactly
r2_score(X, y) ==
    LET sxx == Moment(X, X)
        sxy == Moment(X, y)
        syy == Moment(y, y)
    IN  IF Len(X) < 2 THEN Frac(0, 0)
        ELSE IF syy = 0 THEN Frac(1, 1)
        ELSE IF sxx = 0 THEN Frac(0, 1)
        ELSE Frac(sxy * sxy, sxx * syy)

\* np.corrcoef(x, y)[0, 1], kept as its sign and its square; nan when one
\* of the series has no variance
corrcoef(X, y) ==
    LET sxx == Moment(X, X)
        sxy == Moment(X, y)
        syy == Moment(y, y)
    IN  IF sxx = 0 \/ syy = 0 THEN [sign |-> 0, square |-> Frac(0, 0)]
        ELSE [sign |-> IF sxy > 0 THEN 1 ELSE IF sxy < 0 THEN 0 - 1 ELSE 0,
              square |-> Frac(sxy * sxy, sxx * syy)]

fit_power_law_regression(X, y) ==
    IF MinSamples(X) # "none"
    THEN [raised |-> MinSamples(X)]
    ELSE [raised |-> "none",
          slope |-> LinearRegression(X, y).coef,
          intercept |-> LinearRegression(X, y).intercept,
          r2 |-> r2_score(X, y),
          correlation |-> corrcoef(X, y)]

\* no chart_generators argument
None == <<"None">>

\* logs and reg before the steps that set them
NoLogs == [log_btc_balance_unique |-> << >>,
           log_btc_per_diluted_share_unique |-> << >>]

NoReg == [raised |-> "none"]

(***************************************************************************)
(* load_strategy_tracker_stats                                             *)
(***************************************************************************)
\* the arrays of historicalData that the loader reads
RequiredArrays ==
    {"dates", "btc_balance", "stock_prices", "btc_prices",
     "diluted_shares_outstanding", "market_cap_basic"}

\* JSON documents by shape: the full payload, a payload without one of the
\* arrays, a document without historicalData, and the document null
Documents ==
    {"full", "no_market_cap_basic", "no_dates", "no_historicalData", "null"}

\* the value None of the variable data
NoData == "None"

\* response.json() / json.load(f): null parses to None
json_load(doc) == IF doc = "null" THEN NoData ELSE doc

\* 'historicalData' in data
HasHistoricalData(d) == d \in {"full", "no_market_cap_basic", "no_dates"}

\* the arrays of data['historicalData']
HistoricalArrays(d) ==
    IF d = "full" THEN RequiredArrays
    ELSE IF d = "no_market_cap_basic" THEN RequiredArrays \ {"market_cap_basic"}
    ELSE IF d = "no_dates" THEN RequiredArrays \ {"dates"}
    ELSE {}

\* failures of requests.get and raise_for_status: transport error, timeout,
\* bad HTTP status (all of them RequestException)
RequestExceptions == {"ConnectionError", "Timeout", "HTTPError"}

\* failures of the fetch: the above, and a body that is not JSON
FetchFailures == RequestExceptions \cup {"JSONDecodeError"}

\* what the request results in: a failure, or a JSON document
PrimaryOutcomes == FetchFailures \cup Documents

\* what is at the fallback path: nothing, a file that is not JSON, or a
\* JSON document
FileStates == {"missing", "unparseable"} \cup Documents

\* a fetch guarded against transport errors only
except_fetch_transport(exc) == exc \in RequestExceptions

\* the except clauses of the fetch: RequestException and JSONDecodeError
except_fetch(exc) == exc \in RequestExceptions \cup {"JSONDecodeError"}

\* the exit status of a process that is still running
NoStatus == 0 - 1

\* None as the value of a column-name argument
NoColumn == "None"

\* the sheet loader before it has raised
NoSheetError ==
    [message |-> "none", missing_columns |-> << >>, available_columns |-> << >>]

\* A sheet loader that is not running
NotReadingSheet ==
    /\ columns = [btc_per_share_column |-> NoColumn, btc_price_column |-> NoColumn]
    /\ values = [headers |-> << >>, data_rows |-> << >>]
    /\ sheet_df = << >>
    /\ sheet_error = NoSheetError

\* a config dictionary without keys
EmptyConfig == [k \in {} |-> 0]

\* intersection_idx = None
NoIndex == 0 - 1

\* the results of the chart functions before they are computed
NoProjection ==
    [daily_btc_yield |-> Frac(0, 1), projection_days |-> 0,
     future_nav_per_share |-> [k \in {} |-> << >>]]

NoMnavReport ==
    [mnav |-> << >>, mnav_min |-> Frac(0, 1), mnav_max |-> Frac(0, 1),
     most_recent_mnav |-> Frac(0, 1)]

NoCrossing ==
    [intersection_idx |-> NoIndex, days_difference |-> 0,
     intersection_market_cap |-> 0, current_bitcoin_nav |-> 0,
     printed |-> "none"]

\* no series plotted
NoSeries == [column \in {} |-> << >>]

\* Chart functions that are not running
NotCharting ==
    /\ chart_df = << >>
    /\ config = EmptyConfig
    /\ projection = NoProjection
    /\ mnav_report = NoMnavReport
    /\ crossing = NoCrossing
    /\ local_df = << >>
    /\ sats = NoSeries
    /\ saved = FALSE
    /\ calls = 0

\* the upload functions before they return
NoUploadResult ==
    [returned |-> FALSE, success_count |-> 0, failure_count |-> 0,
     uploaded_files |-> << >>, failed_files |-> << >>, error |-> "none"]

\* An uploader that is not running
NotUploading ==
    /\ environ = [S3_BUCKET_NAME |-> "unset", AWS_ACCESS_KEY_ID |-> "unset",
                  AWS_SECRET_ACCESS_KEY |-> "unset"]
    /\ client = "ok"
    /\ png_files = << >>
    /\ attempts = << >>
    /\ uploaded_files = << >>
    /\ failed_files = << >>
    /\ upload_result = NoUploadResult

\* A loader that is not running
NotLoading ==
    /\ data_url = "unset"
    /\ primary = "none"
    /\ fallback_file_path = "None"
    /\ file = "missing"
    /\ data = NoData
    /\ source = "none"
    /\ raised_at = "none"
    /\ hist_data = << >>

InitLoad ==
    /\ exit_status = NoStatus
    /\ NotReadingSheet
    /\ NotCharting
    /\ NotUploading
    /\ pc = "load"
    /\ data_url \in {"unset", "set"}
    /\ primary \in (IF data_url = "set" THEN PrimaryOutcomes ELSE {"none"})
    /\ fallback_file_path \in {"None", "given"}
    /\ file \in (IF fallback_file_path = "given" THEN FileStates ELSE {"missing"})
    /\ data = NoData
    /\ source = "none"
    /\ raised_at = "none"
    /\ hist_data = << >>
    /\ raised = "none"
    /\ df = << >>
    /\ valid_data = << >>
    /\ unique_data = << >>
    /\ duplicates = 0
    /\ runs = 0
    /\ entry = "load_strategy_tracker_stats"
    /\ chart_generators = None
    /\ logs = NoLogs
    /\ reg = NoReg
    /\ step = 0
    /\ attempted = << >>
    /\ failed = {}
    /\ summary = FALSE

\* lines 41-59: the request to data_url, when it is set
FetchPrimary ==
    /\ pc = "load"
    /\ IF data_url = "set"
       THEN IF primary \in FetchFailures
            THEN IF except_fetch(primary)
                 THEN /\ data' = NoData
                      /\ pc' = "fetched"
                      /\ UNCHANGED <<source, raised, raised_at>>
                 ELSE /\ raised' = primary
                      /\ raised_at' = "fetch"
                      /\ pc' = "load_failed"
                      /\ UNCHANGED <<data, source>>
            ELSE /\ data' = json_load(primary)
                 /\ source' = IF json_load(primary) = NoData THEN "none" ELSE "url"
                 /\ pc' = "fetched"
                 /\ UNCHANGED <<raised, raised_at>>
       ELSE /\ data' = NoData
            /\ pc' = "fetched"
            /\ UNCHANGED <<source, raised, raised_at>>
    /\ UNCHANGED <<main_vars, cleaner_vars, run_vars, sheet_vars, chart_vars, upload_vars,
                   data_url, primary,
                   fallback_file_path, file, hist_data>>

\* lines 62-74: the fallback file is read when data is None
ReadFallback ==
    /\ pc = "fetched"
    /\ IF data # NoData
       THEN /\ pc' = "process"
            /\ UNCHANGED <<data, source, raised, raised_at>>
       ELSE IF fallback_file_path = "None"
       THEN /\ raised' = "FileNotFoundError"
            /\ raised_at' = "fallback_path"
            /\ pc' = "load_failed"
            /\ UNCHANGED <<data, source>>
       ELSE IF file = "missing"
       THEN /\ raised' = "FileNotFoundError"
            /\ raised_at' = "fallback_open"
            /\ pc' = "load_failed"
            /\ UNCHANGED <<data, source>>
       ELSE IF file = "unparseable"
       THEN /\ raised' = "ValueError"
            /\ raised_at' = "fallback_parse"
            /\ pc' = "load_failed"
            /\ UNCHANGED <<data, source>>
       ELSE /\ data' = json_load(file)
            /\ source' = "file"
            /\ pc' = "process"
            /\ UNCHANGED <<raised, raised_at>>
    /\ UNCHANGED <<main_vars, cleaner_vars, run_vars, sheet_vars, chart_vars, upload_vars,
                   data_url, primary,
                   fallback_file_path, file, hist_data>>

\* lines 78-91: one row per entry of the arrays, in the order of the arrays,
\* with btc_per_diluted_share = btc_balance / diluted_shares_outstanding
DataFrame(h) ==
    [i \in 1..Len(h) |->
        [idx |-> i - 1, date |-> h[i].dates, btc_balance |-> h[i].btc_balance,
         btc_prices |-> h[i].btc_prices, stock_prices |-> h[i].stock_prices,
         diluted_shares_outstanding |-> h[i].diluted_shares_outstanding,
         market_cap_basic |-> h[i].market_cap_basic,
         btc_per_diluted_share |->
             Frac(h[i].btc_balance, h[i].diluted_shares_outstanding)]]

\* lines 77-93: the record table is built from the arrays of historicalData
ProcessPayload ==
    /\ pc = "process"
    /\ IF data = NoData
       THEN /\ raised' = "TypeError"
            /\ raised_at' = "payload"
            /\ pc' = "load_failed"
            /\ UNCHANGED chart_df
       ELSE IF ~HasHistoricalData(data) \/ ~(RequiredArrays \subseteq HistoricalArrays(data))
       THEN /\ raised' = "KeyError"
            /\ raised_at' = "payload"
            /\ pc' = "load_failed"
            /\ UNCHANGED chart_df
       ELSE /\ chart_df' = DataFrame(hist_data)
            /\ pc' = "loaded"
            /\ UNCHANGED <<raised, raised_at>>
    /\ UNCHANGED <<main_vars, cleaner_vars, run_vars, sheet_vars, upload_vars,
                   data_url, primary, fallback_file_path, file, data, source,
                   hist_data, config, projection, mnav_report, crossing,
                   local_df, sats, saved, calls>>

NextLoad == FetchPrimary \/ ReadFallback \/ ProcessPayload

SpecLoad == InitLoad /\ [][NextLoad]_vars

(***************************************************************************)
(* The cleaner applied to record tables                                    *)
(***************************************************************************)
InitClean ==
    /\ exit_status = NoStatus
    /\ NotLoading
    /\ NotReadingSheet
    /\ NotCharting
    /\ NotUploading
    /\ pc = "start"
    /\ IsInputTable(df, MaxRows)
    /\ valid_data = << >>
    /\ unique_data = << >>
    /\ duplicates = 0
    /\ raised = "none"
    /\ runs = 0
    /\ entry = "filter_and_deduplicate_data"
    /\ chart_generators = None
    /\ logs = NoLogs
    /\ reg = NoReg
    /\ step = 0
    /\ attempted = << >>
    /\ failed = {}
    /\ summary = FALSE

\* valid_data, unique_data, duplicates = filter_and_deduplicate_data(df)
Clean ==
    /\ UNCHANGED <<main_vars, load_vars, sheet_vars, chart_vars, upload_vars>>
    /\ pc = "start"
    /\ LET res == filter_and_deduplicate_data(df)
       IN  IF res.raised # "none"
           THEN /\ raised' = res.raised
                /\ pc' = "failed"
                /\ UNCHANGED <<valid_data, unique_data, duplicates, runs>>
           ELSE /\ valid_data' = res.valid_data
                /\ unique_data' = res.unique_data
                /\ duplicates' = res.duplicates
                /\ runs' = runs + 1
                /\ pc' = "cleaned"
                /\ UNCHANGED raised
    /\ UNCHANGED <<df, run_vars>>

\* the caller passes the 'unique' view of the previous call to the cleaner
CleanAgain ==
    /\ UNCHANGED <<main_vars, load_vars, sheet_vars, chart_vars, upload_vars>>
    /\ pc = "cleaned"
    /\ runs < MaxRuns
    /\ df' = unique_data
    /\ pc' = "start"
    /\ UNCHANGED <<valid_data, unique_data, duplicates, raised, runs, run_vars>>

NextClean == Clean \/ CleanAgain

SpecClean == InitClean /\ [][NextClean]_vars

(***************************************************************************)
(* run_company_analysis and the sequential chart calls of a company        *)
(* run_analysis                                                            *)
(***************************************************************************)
\* the chart steps of _generate_default_charts, in call order
DefaultCharts == <<"power_law", "stock_nav", "mnav", "stacked_area", "btc_per_share">>

\* the chart steps of run_analysis of companies/coinsilium/config.py
CompanyCharts == <<"power_law", "stock_nav", "stacked_area", "btc_per_share">>

\* the chart step that needs the fit
FitCharts == {"power_law"}

ChartSteps == IF entry = "run_analysis" THEN CompanyCharts ELSE DefaultCharts

\* chart_generators dictionaries: per entry, in dictionary order, whether
\* the chart function returns or raises an Exception
GeneratorDicts ==
    UNION { [1..n -> {"ok", "raise"}] : n \in 0..MaxGens }

\* what can fail in a chart function apart from its data: writing the image
ChartEnvironment == {"none", "OSError"}

\* the exception a chart function raises on table t by its own computation:
\* create_power_law_chart cleans and fits again, and the fit raises on an
\* empty unique view
ChartRaisesOnData(chart, t) ==
    IF chart = "power_law"
    THEN LET u == filter_and_deduplicate_data(t).unique_data
             l == perform_log_transformation(u)
         IN  fit_power_law_regression(l.log_btc_balance_unique,
                                      l.log_btc_per_diluted_share_unique).raised
    ELSE "none"

\* a loop body without try/except: nothing is caught
except_Exception_missing(exc) == FALSE

\* the except clause of the generator loop catches every Exception
except_Exception(exc) == exc # "none"

Terminal == {"done", "aborted"}

Init ==
    /\ exit_status = NoStatus
    /\ NotLoading
    /\ NotReadingSheet
    /\ NotCharting
    /\ NotUploading
    /\ IsInputTable(df, MaxRunRows)
    /\ entry \in {"run_company_analysis", "run_analysis"}
    /\ IF entry = "run_company_analysis"
       THEN /\ pc = "start"
            /\ chart_generators \in {None} \cup GeneratorDicts
            /\ step = 0
       ELSE /\ pc = "charts"
            /\ chart_generators = None
            /\ step = 1
    /\ valid_data = << >>
    /\ unique_data = << >>
    /\ duplicates = 0
    /\ raised = "none"
    /\ runs = 0
    /\ logs = NoLogs
    /\ reg = NoReg
    /\ attempted = << >>
    /\ failed = {}
    /\ summary = FALSE

\* Step 2: perform_log_transformation(valid_data, unique_data)
LogTransform ==
    /\ UNCHANGED <<main_vars, load_vars, sheet_vars, chart_vars, upload_vars>>
    /\ pc = "cleaned"
    /\ entry = "run_company_analysis"
    /\ logs' = perform_log_transformation(unique_data)
    /\ pc' = "logged"
    /\ UNCHANGED <<raised, cleaner_vars, entry, chart_generators, reg, step,
                   attempted, failed, summary>>

\* Steps 3 and 4: fit_power_law_regression and calculate_statistics; an
\* exception of the fit leaves run_company_analysis
FitRegression ==
    /\ UNCHANGED <<main_vars, load_vars, sheet_vars, chart_vars, upload_vars>>
    /\ pc = "logged"
    /\ LET res == fit_power_law_regression(logs.log_btc_balance_unique,
                                           logs.log_btc_per_diluted_share_unique)
       IN  /\ reg' = res
           /\ IF res.raised # "none"
              THEN /\ raised' = res.raised
                   /\ pc' = "aborted"
              ELSE /\ pc' = "fitted"
                   /\ UNCHANGED raised
    /\ UNCHANGED <<cleaner_vars, entry, chart_generators, logs, step,
                   attempted, failed, summary>>

\* Step 5, entry: processed_data is built and the chart path is chosen; an
\* empty chart_generators dictionary has no chart step
StartCharts ==
    /\ UNCHANGED <<main_vars, load_vars, sheet_vars, chart_vars, upload_vars>>
    /\ pc = "fitted"
    /\ step' = 1
    /\ pc' = IF chart_generators # None /\ Len(chart_generators) = 0
             THEN "summary" ELSE "charts"
    /\ UNCHANGED <<raised, cleaner_vars, entry, chart_generators, logs, reg,
                   attempted, failed, summary>>

\* one chart call of _generate_default_charts or of a company run_analysis:
\* the calls are in sequence, so an exception of one leaves the function
DefaultChart ==
    /\ UNCHANGED <<main_vars, load_vars, sheet_vars, chart_vars, upload_vars>>
    /\ pc = "charts"
    /\ chart_generators = None
    /\ step <= Len(ChartSteps)
    /\ \E env \in ChartEnvironment :
         LET chart == ChartSteps[step]
             exc == IF ChartRaisesOnData(chart, df) # "none"
                    THEN ChartRaisesOnData(chart, df) ELSE env
         IN  /\ attempted' = Append(attempted, chart)
             /\ IF exc # "none"
                THEN /\ raised' = exc
                     /\ pc' = "aborted"
                     /\ UNCHANGED step
                ELSE /\ step' = step + 1
                     /\ pc' = IF step < Len(ChartSteps) THEN "charts"
                              ELSE IF entry = "run_analysis" THEN "done"
                              ELSE "summary"
                     /\ UNCHANGED raised
    /\ UNCHANGED <<cleaner_vars, entry, chart_generators, logs, reg, failed,
                   summary>>

\* one iteration of the loop over chart_generators.items(): the chart
\* function is called inside try/except Exception
CustomChart ==
    /\ UNCHANGED <<main_vars, load_vars, sheet_vars, chart_vars, upload_vars>>
    /\ pc = "charts"
    /\ chart_generators # None
    /\ step <= Len(chart_generators)
    /\ LET exc == IF chart_generators[step] = "raise" THEN "Exception" ELSE "none"
       IN  /\ attempted' = Append(attempted, step)
           /\ IF exc # "none" /\ ~except_Exception(exc)
              THEN /\ raised' = exc
                   /\ pc' = "aborted"
                   /\ UNCHANGED <<step, failed>>
              ELSE /\ failed' = IF exc # "none" THEN failed \cup {step} ELSE failed
                   /\ step' = step + 1
                   /\ pc' = IF step < Len(chart_generators) THEN "charts"
                            ELSE "summary"
                   /\ UNCHANGED raised
    /\ UNCHANGED <<cleaner_vars, entry, chart_generators, logs, reg, summary>>

\* Step 6: print_detailed_summary
PrintSummary ==
    /\ UNCHANGED <<main_vars, load_vars, sheet_vars, chart_vars, upload_vars>>
    /\ pc = "summary"
    /\ summary' = TRUE
    /\ pc' = "done"
    /\ UNCHANGED <<raised, cleaner_vars, entry, chart_generators, logs, reg,
                   step, attempted, failed>>

\* the __main__ block of a company script around run_analysis(): the table
\* was loaded, run_company_analysis has ended; an exception that left it is
\* caught by `except Exception` and answered with sys.exit(1) (BLGV), or is
\* caught nowhere and ends the interpreter with status 1 (LQWD, H100); the
\* upload that may follow a completed run catches its own exceptions
Exit ==
    /\ UNCHANGED <<load_vars, sheet_vars, chart_vars, upload_vars>>
    /\ pc \in Terminal
    /\ entry = "run_company_analysis"
    /\ exit_status = NoStatus
    /\ exit_status' = IF raised # "none" THEN 1 ELSE 0
    /\ UNCHANGED <<pc, raised, cleaner_vars, run_vars>>

Next ==
    \/ Clean
    \/ LogTransform
    \/ FitRegression
    \/ StartCharts
    \/ DefaultChart
    \/ CustomChart
    \/ PrintSummary
    \/ Exit

Spec == Init /\ [][Next]_vars

(***************************************************************************)
(* Properties of the cleaner                                               *)
(***************************************************************************)
\* the validity invariant of the data model, stated on the values of a row
RowIsValid(r) ==
    /\ r.btc_balance # NaN
    /\ r.btc_per_diluted_share # NaN
    /\ r.btc_balance > 0
    /\ r.btc_per_diluted_share > 0

\* s is a sub-sequence of t in the order of t: the rows of s are rows of t,
\* taken at strictly increasing positions
IsSubSequence(s, t) ==
    \E f \in [1..Len(s) -> 1..Len(t)] :
        /\ \A k \in 1..Len(s) : s[k] = t[f[k]]
        /\ \A j, k \in 1..Len(s) : j < k => f[j] < f[k]

\* the positions of t that hold a valid row
ValidPositions(t) == { i \in 1..Len(t) : RowIsValid(t[i]) }

\* C1: after the cleaner, 'valid' is exactly the sub-sequence, in table
\* order, of the rows of the table with btc_balance > 0 and
\* btc_per_diluted_share > 0 and neither missing: every such row is in it,
\* once, and no other row is.
C1_ValidIsExactFilter ==
    pc = "cleaned" =>
        /\ IsSubSequence(valid_data, df)
        /\ \A k \in 1..Len(valid_data) : RowIsValid(valid_data[k])
        /\ \A i \in ValidPositions(df) :
               \E k \in 1..Len(valid_data) : valid_data[k] = df[i]
        /\ Len(valid_data) = Cardinality(ValidPositions(df))

\* a table with a valid row after an invalid one and an invalid row after a
\* valid one has been cleaned
C1_Witness ==
    /\ pc = "cleaned"
    /\ Len(df) = 3
    /\ ~RowIsValid(df[1]) /\ RowIsValid(df[2]) /\ ~RowIsValid(df[3])
    /\ valid_data = <<df[2]>>

\* C2: after the cleaner, 'unique' is a sub-sequence of 'valid' in table
\* order with exactly one row for each btc_balance that occurs in 'valid',
\* and that row is the first row of 'valid' with that btc_balance.
C2_UniqueIsFirstPerBalance ==
    pc = "cleaned" =>
        /\ IsSubSequence(unique_data, valid_data)
        /\ \A i \in 1..Len(valid_data) :
               Cardinality({ k \in 1..Len(unique_data) :
                   unique_data[k].btc_balance = valid_data[i].btc_balance }) = 1
        /\ \A k \in 1..Len(unique_data) :
               \E i \in 1..Len(valid_data) :
                   /\ valid_data[i] = unique_data[k]
                   /\ \A j \in 1..(i - 1) :
                          valid_data[j].btc_balance # unique_data[k].btc_balance

\* two valid rows with the same btc_balance and different per-share values:
\* the first one was kept
C2_Witness ==
    /\ pc = "cleaned"
    /\ Len(valid_data) >= 2
    /\ valid_data[1].btc_balance = valid_data[2].btc_balance
    /\ valid_data[1].btc_per_diluted_share # valid_data[2].btc_per_diluted_share
    /\ unique_data = <<valid_data[1]>>

\* C3: after the cleaner, len(valid) = len(unique) + duplicates and
\* duplicates >= 0.
C3_DuplicateCountConservation ==
    pc = "cleaned" =>
        /\ Len(valid_data) = Len(unique_data) + duplicates
        /\ duplicates >= 0

\* a table with an invalid row and a repeated btc_balance has been cleaned
C3_Witness ==
    /\ pc = "cleaned"
    /\ duplicates > 0
    /\ Len(df) > Len(valid_data)

\* C4: the cleaner run on the 'unique' view of a previous run (df is that
\* view on the second run) returns the view as 'valid' and as 'unique',
\* with duplicate count 0.
C4_DedupIdempotence ==
    (pc = "cleaned" /\ runs >= 2) =>
        /\ valid_data = df
        /\ unique_data = df
        /\ duplicates = 0

\* the second run was on a view of two rows whose labels are not 1, 2: rows
\* were dropped by the first run
C4_Witness ==
    /\ pc = "cleaned"
    /\ runs = 2
    /\ Len(df) = 2
    /\ df[2].idx = 3

\* C5: on an empty table, or a table whose rows are all invalid, the cleaner
\* raises nothing and returns an empty 'valid', an empty 'unique' and
\* duplicate count 0.
C5_EmptyInputIsNormal ==
    (pc # "start" /\ ValidPositions(df) = {}) =>
        /\ pc = "cleaned"
        /\ raised = "none"
        /\ valid_data = << >>
        /\ unique_data = << >>
        /\ duplicates = 0

\* a table of two invalid rows has been cleaned
C5_Witness ==
    /\ pc = "cleaned"
    /\ Len(df) = 2
    /\ ValidPositions(df) = {}

\* the empty table has been cleaned
C5_WitnessEmpty ==
    /\ pc = "cleaned"
    /\ df = << >>
    /\ runs = 1

(***************************************************************************)
(* Properties of the analysis run                                          *)
(***************************************************************************)
Range(q) == { q[k] : k \in 1..Len(q) }

\* the fit step of run_company_analysis has been executed
FitStepDone ==
    /\ entry = "run_company_analysis"
    /\ pc \notin {"start", "cleaned", "logged"}

\* C6: the power-law fit fails with an insufficient-data error whenever the
\* 'unique' view has fewer than 2 rows: for an empty view and for a view of
\* one row the fit ends in the error outcome and produces no slope,
\* intercept or r_squared.
C6_FitNeedsTwoPoints ==
    (FitStepDone /\ Len(unique_data) < 2) =>
        /\ reg.raised # "none"
        /\ DOMAIN reg = {"raised"}

\* C7: when the fit fails for insufficient data inside run_company_analysis
\* the run does not abort: at the end of the run every chart step that does
\* not depend on the fit has been attempted.
C7_FitFailureDoesNotAbort ==
    (FitStepDone /\ reg.raised # "none") =>
        /\ pc # "aborted"
        /\ (pc = "done" /\ chart_generators = None) =>
               Range(DefaultCharts) \ FitCharts \subseteq Range(attempted)

\* C8: with custom chart generators, the generators are attempted in
\* dictionary order, each once; an exception of one is reported and the
\* loop goes on, so the run never ends inside the loop; and the run ends
\* after the summary with every generator attempted.
C8_CustomGeneratorsIsolated ==
    (entry = "run_company_analysis" /\ chart_generators # None) =>
        /\ attempted = [k \in 1..Len(attempted) |-> k]
        /\ Len(attempted) <= Len(chart_generators)
        /\ failed = { k \in Range(attempted) : chart_generators[k] = "raise" }
        /\ pc = "aborted" => (step = 0 /\ reg.raised # "none")
        /\ pc \in {"charts", "summary"} => ENABLED (CustomChart \/ PrintSummary)
        /\ pc = "done" =>
               /\ summary
               /\ Len(attempted) = Len(chart_generators)

\* a run with three generators, the first and the last of which raise, has
\* ended after the summary
C8_Witness ==
    /\ pc = "done"
    /\ chart_generators = <<"raise", "ok", "raise">>
    /\ attempted = <<1, 2, 3>>
    /\ failed = {1, 3}
    /\ summary

\* C9: in the default chart path a failure of one chart step does not
\* prevent the remaining ones from being attempted: once the chart steps
\* have started, the run ends with every chart step attempted.
C9_DefaultChartsIsolated ==
    (chart_generators = None /\ step >= 1 /\ pc \in Terminal) =>
        Range(ChartSteps) \subseteq Range(attempted)

(***************************************************************************)
(* Properties of the loader                                                *)
(***************************************************************************)
\* the primary feed is unset, or its fetch fails
PrimaryUnavailable == data_url = "unset" \/ primary \in FetchFailures

MalformedPrimary ==
    /\ data_url = "set"
    /\ primary \in {"no_historicalData", "no_dates"}

\* C11: a primary response that parses as JSON but has no historicalData or
\* lacks a required array is treated as a fetch failure: the loader goes on
\* to the fallback file, and the load does not end in the error of the
\* malformed primary payload.
C11_MalformedPrimaryFallsBack ==
    MalformedPrimary =>
        /\ pc \in {"process", "loaded"} => source = "file"
        /\ pc = "load_failed" => raised_at # "payload"

\* C12: a payload with dates, btc_balance, stock_prices, btc_prices and
\* diluted_shares_outstanding but without market_cap_basic is loaded: once
\* the loader holds such a payload it ends with the record table built, not
\* with an error.
C12_MarketCapBasicOptional ==
    (data = "no_market_cap_basic" /\ pc \notin {"load", "fetched", "process"}) =>
        /\ pc = "loaded"
        /\ raised = "none"

(***************************************************************************)
(* load_bitcoin_data_from_sheet                                            *)
(***************************************************************************)
\* No cleaner call and no analysis run
NotAnalysing ==
    /\ df = << >>
    /\ valid_data = << >>
    /\ unique_data = << >>
    /\ duplicates = 0
    /\ runs = 0
    /\ chart_generators = None
    /\ logs = NoLogs
    /\ reg = NoReg
    /\ step = 0
    /\ attempted = << >>
    /\ failed = {}
    /\ summary = FALSE

\* largest number of data rows of a sheet
MaxSheetRows == 2

\* the column names a header row may hold, in sheet order: the four default
\* column arguments, the two optional ones, and a column the loader ignores
SheetColumns ==
    <<"date", "btc_balance", "diluted_shares_outstanding", "stock_price",
      "btc_per_share", "btc_price", "notes">>

\* a cell that holds text, or the '' a short row is padded with
Text == 0 - 1

\* cells of the date column (serial day numbers) and of the other columns
DateCells == {Text, 0, 1, 2}
NumberCells == {Text, 1}

\* the column arguments: the optional ones are None or name a column
ColumnArguments ==
    [btc_per_share_column : {NoColumn, "btc_per_share"},
     btc_price_column : {NoColumn, "btc_price"}]

\* the header row with the columns of S
HeaderOf(S) == LET In(c) == c \in S IN SelectSeq(SheetColumns, In)

\* a data row under the header h: d in the date column, v elsewhere
SheetRow(h, d, v) ==
    [c \in { h[k] : k \in 1..Len(h) } |-> IF c = "date" THEN d ELSE v]

\* v is what the sheet request returns: a header row and at most max data
\* rows (no header and no rows for a sheet without content)
IsSheet(v, max) ==
    \E S \in SUBSET { SheetColumns[k] : k \in 1..Len(SheetColumns) } :
    \E n \in 0..max :
    \E f \in [1..n -> DateCells \X NumberCells] :
        v = [headers |-> HeaderOf(S),
             data_rows |-> [i \in 1..n |-> SheetRow(HeaderOf(S), f[i][1], f[i][2])]]

\* pd.DataFrame(padded_rows, columns=headers): RangeIndex 0..n-1
sheet_to_dataframe(v) ==
    [i \in 1..Len(v.data_rows) |-> [idx |-> i - 1, cells |-> v.data_rows[i]]]

\* df.empty: no rows, or no columns
empty(t, h) == Len(t) = 0 \/ Len(h) = 0

\* lines 202-206 (and 233-237): the columns the loader requires
required_columns(cols) ==
    <<"date", "btc_balance", "diluted_shares_outstanding", "stock_price">>
    \o (IF cols.btc_per_share_column # NoColumn
        THEN <<cols.btc_per_share_column>> ELSE << >>)
    \o (IF cols.btc_price_column # NoColumn
        THEN <<cols.btc_price_column>> ELSE << >>)

\* a check that reports the first missing column only
missing_columns_first(required, h) ==
    LET Missing(c) == \A k \in 1..Len(h) : h[k] # c
        all == SelectSeq(required, Missing)
    IN  IF all = << >> THEN << >> ELSE <<Head(all)>>

\* [col for col in required_columns if col not in df.columns]
missing_columns(required, h) ==
    LET Missing(c) == \A k \in 1..Len(h) : h[k] # c
    IN  SelectSeq(required, Missing)

\* pd.to_numeric(series, errors='coerce'), element-wise
to_numeric(cell) == IF cell = Text THEN NaN ELSE cell

\* datetime(year, month, day): a calendar date, kept as the number yyyymmdd
datetime(year, month, day) == year * 10000 + month * 100 + day

\* the number of days of a month of the Gregorian calendar
DaysInMonth(year, month) ==
    IF month = 2
    THEN IF (year % 4 = 0 /\ year % 100 # 0) \/ year % 400 = 0 THEN 29 ELSE 28
    ELSE IF month \in {4, 6, 9, 11} THEN 30 ELSE 31

\* date + timedelta(days=1)
NextDay(date) ==
    LET year == date \div 10000
        month == (date \div 100) % 100
        day == date % 100
    IN  IF day < DaysInMonth(year, month) THEN datetime(year, month, day + 1)
        ELSE IF month < 12 THEN datetime(year, month + 1, 1)
        ELSE datetime(year + 1, 1, 1)

\* date + timedelta(days=days) for days >= 0
RECURSIVE timedelta_add(_, _)
timedelta_add(date, days) ==
    IF days = 0 THEN date ELSE timedelta_add(NextDay(date), days - 1)

\* convert_google_sheets_date: the calendar date days after 1899-12-30 for a
\* serial number > 0; None (NaN here) otherwise
convert_google_sheets_date(serial_number) ==
    IF serial_number # NaN /\ serial_number > 0
    THEN timedelta_add(datetime(1899, 12, 30), serial_number)
    ELSE NaN

\* lines 218-229 on one row
ConvertRow(r, required) ==
    [r EXCEPT !.cells =
        [c \in DOMAIN r.cells |->
            IF c = "date" THEN convert_google_sheets_date(to_numeric(r.cells[c]))
            ELSE IF \E k \in 1..Len(required) : required[k] = c
            THEN to_numeric(r.cells[c])
            ELSE r.cells[c]]]

\* df.dropna(subset=required_numeric_columns)
dropna(t, subset) ==
    LET Complete(r) == \A k \in 1..Len(subset) : r.cells[subset[k]] # NaN
    IN  SelectSeq(t, Complete)

\* lines 249-261: the standard name of a column
column_mapping(c, cols) ==
    IF c = "stock_price" THEN "stock_prices"
    ELSE IF c = cols.btc_per_share_column THEN "btc_per_diluted_share"
    ELSE IF c = cols.btc_price_column THEN "btc_prices"
    ELSE c

\* df.rename(columns=column_mapping) on one row
rename(r, cols) ==
    [r EXCEPT !.cells =
        [n \in { column_mapping(c, cols) : c \in DOMAIN r.cells } |->
            r.cells[CHOOSE c \in DOMAIN r.cells : column_mapping(c, cols) = n]]]

\* df.sort_values('date'): rows in ascending date order, rows of one date
\* in the order they had (short tables are sorted by insertion)
RECURSIVE sort_values(_)
sort_values(t) ==
    IF Len(t) <= 1 THEN t
    ELSE LET rest == sort_values(SubSeq(t, 1, Len(t) - 1))
             r == t[Len(t)]
             k == Cardinality({ i \in 1..Len(rest) :
                                  rest[i].cells["date"] <= r.cells["date"] })
         IN  SubSeq(rest, 1, k) \o <<r>> \o SubSeq(rest, k + 1, Len(rest))

\* .reset_index(drop=True)
reset_index(t) == [i \in 1..Len(t) |-> [t[i] EXCEPT !.idx = i - 1]]

\* lines 267-269: btc_per_diluted_share = btc_balance / diluted_shares_outstanding
\* when the column was not provided
derive(r, cols) ==
    IF cols.btc_per_share_column = NoColumn
    THEN [r EXCEPT !.cells =
             [c \in DOMAIN r.cells \cup {"btc_per_diluted_share"} |->
                 IF c = "btc_per_diluted_share"
                 THEN Frac(r.cells["btc_balance"],
                           r.cells["diluted_shares_outstanding"])
                 ELSE r.cells[c]]]
    ELSE r

InitSheet ==
    /\ exit_status = NoStatus
    /\ NotLoading
    /\ NotCharting
    /\ NotUploading
    /\ NotAnalysing
    /\ pc = "sheet"
    /\ raised = "none"
    /\ entry = "load_bitcoin_data_from_sheet"
    /\ columns \in ColumnArguments
    /\ IsSheet(values, MaxSheetRows)
    /\ sheet_df = << >>
    /\ sheet_error = NoSheetError

\* lines 196-215: the table is read; an empty table and a header without a
\* required column end the loader (the except clause of lines 277-278 wraps
\* the message and raises Exception again)
CheckColumns ==
    /\ pc = "sheet"
    /\ LET frame == sheet_to_dataframe(values)
           missing == missing_columns(required_columns(columns), values.headers)
       IN  /\ sheet_df' = frame
           /\ IF empty(frame, values.headers)
              THEN /\ sheet_error' = [NoSheetError EXCEPT
                                         !.message = "No data found"]
                   /\ raised' = "Exception"
                   /\ pc' = "sheet_failed"
              ELSE IF missing # << >>
              THEN /\ sheet_error' =
                          [message |-> "Missing required columns",
                           missing_columns |-> missing,
                           available_columns |-> values.headers]
                   /\ raised' = "Exception"
                   /\ pc' = "sheet_failed"
              ELSE /\ pc' = "checked"
                   /\ UNCHANGED <<sheet_error, raised>>
    /\ UNCHANGED <<main_vars, cleaner_vars, run_vars, load_vars, chart_vars, upload_vars,
                   columns, values>>

\* lines 217-229: the required columns are converted
ConvertTypes ==
    /\ pc = "checked"
    /\ sheet_df' = [i \in 1..Len(sheet_df) |->
                       ConvertRow(sheet_df[i], required_columns(columns))]
    /\ pc' = "converted"
    /\ UNCHANGED <<main_vars, raised, cleaner_vars, run_vars, load_vars, chart_vars,
                   upload_vars, columns, values, sheet_error>>

\* lines 231-246: rows with a missing required value are dropped
DropInvalid ==
    /\ pc = "converted"
    /\ LET kept == dropna(sheet_df, required_columns(columns))
       IN  /\ sheet_df' = kept
           /\ IF kept = << >>
              THEN /\ sheet_error' = [NoSheetError EXCEPT
                                         !.message = "No valid data rows"]
                   /\ raised' = "Exception"
                   /\ pc' = "sheet_failed"
              ELSE /\ pc' = "dropped"
                   /\ UNCHANGED <<sheet_error, raised>>
    /\ UNCHANGED <<main_vars, cleaner_vars, run_vars, load_vars, chart_vars, upload_vars,
                   columns, values>>

\* lines 248-275: columns renamed, rows sorted by date and relabelled, the
\* per-share column derived
SortAndDerive ==
    /\ pc = "dropped"
    /\ LET renamed == [i \in 1..Len(sheet_df) |-> rename(sheet_df[i], columns)]
           sorted == reset_index(sort_values(renamed))
       IN  sheet_df' = [i \in 1..Len(sorted) |-> derive(sorted[i], columns)]
    /\ pc' = "sheet_loaded"
    /\ UNCHANGED <<main_vars, raised, cleaner_vars, run_vars, load_vars, chart_vars,
                   upload_vars, columns, values, sheet_error>>

NextSheet == CheckColumns \/ ConvertTypes \/ DropInvalid \/ SortAndDerive

SpecSheet == InitSheet /\ [][NextSheet]_vars

(***************************************************************************)
(* Properties of the sheet loader                                          *)
(***************************************************************************)
\* the required columns that the header row does not hold
AbsentFromHeader ==
    { c \in Range(required_columns(columns)) : c \notin Range(values.headers) }

\* the loader ended at the column check with both lists, before any row was
\* converted or dropped
FailedAtColumnCheck ==
    /\ pc = "sheet_failed"
    /\ raised = "Exception"
    /\ sheet_error.message = "Missing required columns"
    /\ Range(sheet_error.missing_columns) = AbsentFromHeader
    /\ Len(sheet_error.missing_columns) = Cardinality(AbsentFromHeader)
    /\ sheet_error.available_columns = values.headers
    /\ Len(sheet_df) = Len(values.data_rows)
    /\ \A i \in 1..Len(sheet_df) : sheet_df[i].cells = values.data_rows[i]

\* C13 as stated: whenever a required column (the optional ones when
\* configured) is absent from the header row, the loader fails before
\* converting or dropping a row, with an error that carries the list of
\* every missing column and the list of the columns found.
C13_MissingColumnsReported ==
    (pc # "sheet" /\ AbsentFromHeader # {}) => FailedAtColumnCheck

\* C13, amended: the same, for a sheet whose table is not empty (a header
\* row with at least one column and at least one data row); an empty table
\* ends the loader earlier with "No data found" and no column lists.
C13_MissingColumnsReportedNonEmpty ==
    (pc # "sheet" /\ AbsentFromHeader # {}
        /\ values.headers # << >> /\ values.data_rows # << >>)
    => FailedAtColumnCheck

\* a sheet with a data row whose header lacks two required columns, one of
\* them a configured optional column, has been rejected at the column check
C13_Witness ==
    /\ FailedAtColumnCheck
    /\ Len(sheet_df) >= 1
    /\ columns.btc_price_column = "btc_price"
    /\ {"stock_price", "btc_price"} \subseteq AbsentFromHeader
    /\ "notes" \in Range(sheet_error.available_columns)

(***************************************************************************)
(* The chart functions: create_stock_nav_chart, create_mnav_chart and      *)
(* create_stacked_mc_btc_nav_chart                                         *)
(*                                                                         *)
(* A float that results from a division is a Frac: num/den with den >= 0,  *)
(* inf when only den is 0, nan when num and den are 0.  Dates are day      *)
(* numbers.                                                                *)
(***************************************************************************)
\* largest number of rows of a table given to create_stock_nav_chart
MaxNavRows == 2
\* largest number of rows by which a long table exceeds the yield window
MaxExtraRows == 1
\* largest number of rows of a table given to create_mnav_chart
MaxMnavRows == 3
\* largest number of rows of a table given to create_stacked_mc_btc_nav_chart
MaxAreaRows == 4

\* df.tail(30): the rows of the yield window
TailRows == 30
\* projection_days = projection_months * 30
DaysPerMonth == 30
\* config.get('nav_reference_levels', [3, 5, 7])
DefaultNavLevels == <<3, 5, 7>>
\* config.get('projection_months', 2)
DefaultProjectionMonths == 2

isnan(q) == q.den = 0 /\ q.num = 0
isinf(q) == q.den = 0 /\ q.num # 0

\* float division of two non-negative numbers: x/0 is inf and 0/0 is nan,
\* without an exception
truediv(a, b) == Frac(a, b)

\* q * k, n + q and q / s for a float q and integers k, n, s >= 0
fmul(q, k) == Frac(q.num * k, q.den)
fadd(n, q) == Frac(n * q.den + q.num, q.den)
fdiv(q, s) == Frac(q.num, q.den * s)

\* p < q for floats that are not nan
flt(p, q) ==
    IF isinf(p) \/ p = q THEN FALSE
    ELSE IF isinf(q) THEN TRUE
    ELSE p.num * q.den < q.num * p.den

\* series.min() and series.max(): nan values are skipped; nan when no value
\* is left
series_min(s) ==
    LET I == { i \in 1..Len(s) : ~isnan(s[i]) }
    IN  IF I = {} THEN Frac(0, 0)
        ELSE s[CHOOSE i \in I : \A j \in I : ~flt(s[j], s[i]) /\ (flt(s[i], s[j]) \/ i <= j)]

series_max(s) ==
    LET I == { i \in 1..Len(s) : ~isnan(s[i]) }
    IN  IF I = {} THEN Frac(0, 0)
        ELSE s[CHOOSE i \in I : \A j \in I : ~flt(s[i], s[j]) /\ (flt(s[j], s[i]) \/ i <= j)]

\* series.iloc[i] for a 0-based position i, from the end when i < 0
iloc(s, i) == IF i < 0 THEN s[Len(s) + 1 + i] ELSE s[i + 1]

\* config.get(key, default)
get(c, key, default) == IF key \in DOMAIN c THEN c[key] ELSE default

\* one row of the table of a loader
ChartRow(i, d, b, p, s, n) ==
    [idx |-> i, date |-> d, btc_balance |-> b, btc_prices |-> p,
     stock_prices |-> s, diluted_shares_outstanding |-> n]

\* the date of row i when row k follows row k-1 after f[k][1] days
RECURSIVE DateAt(_, _)
DateAt(f, i) == IF i = 0 THEN 0 ELSE DateAt(f, i - 1) + f[i][1]

\* t is a table of min..max rows in ascending date order whose rows take
\* their day gaps, balances, bitcoin prices, stock prices and share counts
\* from the given sets
IsChartTable(t, min, max, Gaps, Bals, Prices, Stocks, Shares) ==
    \E n \in min..max :
    \E f \in [1..n -> Gaps \X Bals \X Prices \X Stocks \X Shares] :
        t = [i \in 1..n |->
                ChartRow(i - 1, DateAt(f, i), f[i][2], f[i][3], f[i][4], f[i][5])]

\* balances of the tables given to create_stock_nav_chart
NavBalances == {0, 1, 3}

\* a table of n daily rows with balance a in the first row, c in the last
\* row and b in between
LongTable(n, a, b, c) ==
    [i \in 1..n |->
        ChartRow(i - 1, i, IF i = 1 THEN a ELSE IF i = n THEN c ELSE b, 2, 1, 1)]

\* t is a table about as long as the yield window
IsLongTable(t) ==
    \E n \in (TailRows - 1)..(TailRows + MaxExtraRows) :
    \E a, b, c \in NavBalances : t = LongTable(n, a, b, c)

\* four daily rows with market caps 10, 20, 30, 40 and a last NAV of 25
CrossingExample ==
    [i \in 1..4 |-> ChartRow(i - 1, i, 25, 1, 10 * i, 1)]

\* one row with btc_balance 1000, btc_prices 50000, stock_prices 500000 and
\* diluted_shares_outstanding 200
MnavExample == <<ChartRow(0, 1, 1000, 50000, 500000, 200)>>

\* the config dictionaries given to create_stock_nav_chart
NavConfigs ==
    {EmptyConfig, [nav_reference_levels |-> <<2>>, projection_months |-> 1]}

ChartFunctions ==
    {"create_stock_nav_chart", "create_mnav_chart",
     "create_stacked_mc_btc_nav_chart"}

\* btc_balance * btc_prices
nav(r) == r.btc_balance * r.btc_prices

\* diluted_shares_outstanding * stock_prices
fully_diluted_market_cap(r) == r.diluted_shares_outstanding * r.stock_prices

\* the inverse multiple, nav / fully_diluted_market_cap
mnav_inverse(r) == truediv(nav(r), fully_diluted_market_cap(r))

\* fully_diluted_market_cap / nav
mnav(r) == truediv(fully_diluted_market_cap(r), nav(r))

\* a yield window of all rows
tail_all(t, n) == t

\* df.tail(n)
tail(t, n) == IF Len(t) <= n THEN t ELSE SubSeq(t, Len(t) - n + 1, Len(t))

\* series.diff().dropna(): the differences of consecutive values
diff(s) == [i \in 1..(Len(s) - 1) |-> s[i + 1] - s[i]]

\* series.mean(): nan for a series without values
mean(s) == Frac(SumSeq(s), Len(s))

\* lines 416-423: the yield window and the mean daily change in it
daily_btc_yield(t) ==
    LET last_30_days == IF Len(tail(t, TailRows)) < 2 THEN t ELSE tail(t, TailRows)
        btc_changes == diff([i \in 1..Len(last_30_days) |->
                                last_30_days[i].btc_balance])
    IN  mean(btc_changes)

\* line 440, for the position i of enumerate(future_dates)
days_ahead(i) == i + 1

\* lines 441-448 for one future date and one level
nav_per_share(t, i, level) ==
    LET last == iloc(t, 0 - 1)
        projected_btc_balance ==
            fadd(last.btc_balance, fmul(daily_btc_yield(t), days_ahead(i)))
        projected_nav == fmul(projected_btc_balance, last.btc_prices)
    IN  fdiv(fmul(projected_nav, level), last.diluted_shares_outstanding)

\* config.get('global_start_date') of a config without the key
NoDate == 0 - 1

\* a filter that leaves out the rows of filter_date itself
date_filter_exclusive(t, filter_date) ==
    LET after(r) == r.date > filter_date IN SelectSeq(t, after)

\* df[df['date'] >= filter_date].copy(): a new table of the rows from
\* filter_date on, with their index labels
date_filter(t, filter_date) ==
    LET from(r) == r.date >= filter_date IN SelectSeq(t, from)

\* an assignment that also overwrites a column the row already has
setitem_zeroing(r, derived) == [r EXCEPT !.btc_balance = 0] @@ derived

\* df[column] = ... for the derived columns of one row
setitem(r, derived) == r @@ derived

\* lines 387-449 and 519 of create_stock_nav_chart: the optional date filter
\* (a copy, left without a row the function returns), the nav columns, added
\* to the caller's table when it was not filtered, the projection and the
\* image; on a table without rows the projection has no start date (NaT) and
\* pd.date_range raises
StockNavChart ==
    /\ pc = "chart"
    /\ entry = "create_stock_nav_chart"
    /\ LET global_start_date == get(config, "global_start_date", NoDate)
           filtered == global_start_date # NoDate
           d == IF filtered THEN date_filter(chart_df, global_start_date)
                ELSE chart_df
           nav_levels == get(config, "nav_reference_levels", DefaultNavLevels)
           projection_months == get(config, "projection_months",
                                    DefaultProjectionMonths)
           projection_days == projection_months * DaysPerMonth
           levels == { nav_levels[k] : k \in 1..Len(nav_levels) }
           with_nav ==
               [i \in 1..Len(d) |->
                   setitem(d[i],
                       [nav |-> nav(d[i]),
                        nav_x_per_share |->
                            [level \in levels |->
                                truediv(nav(d[i]) * level,
                                        d[i].diluted_shares_outstanding)]])]
       IN  IF filtered /\ d = << >>
           THEN /\ local_df' = d
                /\ pc' = "charted"
                /\ UNCHANGED <<raised, chart_df, projection, saved>>
           ELSE /\ local_df' = with_nav
                /\ chart_df' = IF filtered THEN chart_df ELSE with_nav
                /\ IF d = << >>
                   THEN /\ raised' = "ValueError"
                        /\ pc' = "chart_failed"
                        /\ UNCHANGED <<projection, saved>>
                   ELSE /\ projection' =
                               [daily_btc_yield |-> daily_btc_yield(d),
                                projection_days |-> projection_days,
                                future_nav_per_share |->
                                    [level \in levels |->
                                        [k \in 1..projection_days |->
                                            nav_per_share(d, k - 1, level)]]]
                        /\ saved' = TRUE
                        /\ pc' = "charted"
                        /\ UNCHANGED raised
    /\ UNCHANGED <<main_vars, cleaner_vars, run_vars, load_vars, sheet_vars, upload_vars,
                   config, mnav_report, crossing, sats, calls>>

\* lines 530-586 and 623 of create_mnav_chart: the two optional date filters
\* (each a copy, left without a row the function returns), the nav,
\* fully_diluted_market_cap and mnav columns of the copy, the reported range,
\* the most recent value and the image; on a table without rows the date
\* range of line 569 is NaT and strftime raises
MnavChart ==
    /\ pc = "chart"
    /\ entry = "create_mnav_chart"
    /\ LET global_start_date == get(config, "global_start_date", NoDate)
           start_date == get(config, "mnav_start_date", NoDate)
           d == IF global_start_date # NoDate
                THEN date_filter(chart_df, global_start_date) ELSE chart_df
           df_filtered == IF start_date # NoDate
                          THEN date_filter(d, start_date) ELSE d
           with_mnav ==
               [i \in 1..Len(df_filtered) |->
                   setitem(df_filtered[i],
                       [nav |-> nav(df_filtered[i]),
                        fully_diluted_market_cap |->
                            fully_diluted_market_cap(df_filtered[i]),
                        mnav |-> mnav(df_filtered[i])])]
           series == [i \in 1..Len(with_mnav) |-> with_mnav[i].mnav]
       IN  IF \/ global_start_date # NoDate /\ d = << >>
              \/ start_date # NoDate /\ df_filtered = << >>
           THEN /\ local_df' = df_filtered
                /\ pc' = "charted"
                /\ UNCHANGED <<raised, mnav_report, saved>>
           ELSE /\ local_df' = with_mnav
                /\ IF df_filtered = << >>
                   THEN /\ raised' = "ValueError"
                        /\ pc' = "chart_failed"
                        /\ UNCHANGED <<mnav_report, saved>>
                   ELSE /\ mnav_report' =
                               [mnav |-> series,
                                mnav_min |-> series_min(series),
                                mnav_max |-> series_max(series),
                                most_recent_mnav |-> iloc(series, 0 - 1)]
                        /\ saved' = TRUE
                        /\ pc' = "charted"
                        /\ UNCHANGED raised
    /\ UNCHANGED <<main_vars, cleaner_vars, run_vars, load_vars, sheet_vars, upload_vars,
                   chart_df, config, projection, crossing, sats, calls>>

\* a scan that keeps the first crossing of the table
scan_first(caps, current_bitcoin_nav, i) ==
    LET C == { k \in 1..i : /\ iloc(caps, k - 1) < current_bitcoin_nav
                            /\ iloc(caps, k) >= current_bitcoin_nav }
    IN  IF C = {} THEN NoIndex ELSE CHOOSE k \in C : \A j \in C : k <= j

\* lines 692-701: the loop over range(len(df) - 1, 0, -1), from position i
RECURSIVE scan(_, _, _)
scan(caps, current_bitcoin_nav, i) ==
    IF i < 1 THEN NoIndex
    ELSE IF /\ iloc(caps, i - 1) < current_bitcoin_nav
            /\ iloc(caps, i) >= current_bitcoin_nav
    THEN i
    ELSE scan(caps, current_bitcoin_nav, i - 1)

\* lines 648-729 and 778-779 of create_stacked_mc_btc_nav_chart: the optional
\* date filter (a copy, left without a row the function returns), the two
\* columns, added to the caller's table when it was not filtered, the
\* crossing that is looked for, the image and the last line printed; on a
\* table without rows the date range of line 667 is NaT and strftime raises
StackedAreaChart ==
    /\ pc = "chart"
    /\ entry = "create_stacked_mc_btc_nav_chart"
    /\ LET global_start_date == get(config, "global_start_date", NoDate)
           filtered == global_start_date # NoDate
           d == IF filtered THEN date_filter(chart_df, global_start_date)
                ELSE chart_df
           with_caps ==
               [i \in 1..Len(d) |->
                   setitem(d[i],
                       [bitcoin_nav |-> nav(d[i]),
                        fully_diluted_market_cap |->
                            fully_diluted_market_cap(d[i])])]
       IN  IF filtered /\ d = << >>
           THEN /\ local_df' = d
                /\ pc' = "charted"
                /\ UNCHANGED <<raised, chart_df, crossing, saved>>
           ELSE /\ local_df' = with_caps
                /\ chart_df' = IF filtered THEN chart_df ELSE with_caps
                /\ IF d = << >>
                   THEN /\ raised' = "ValueError"
                        /\ pc' = "chart_failed"
                        /\ UNCHANGED <<crossing, saved>>
                   ELSE /\ LET caps == [i \in 1..Len(d) |->
                                           fully_diluted_market_cap(d[i])]
                               current_bitcoin_nav == nav(iloc(d, 0 - 1))
                               current_date == iloc(d, 0 - 1).date
                               intersection_idx ==
                                   scan(caps, current_bitcoin_nav, Len(d) - 1)
                           IN  crossing' =
                                   IF intersection_idx # NoIndex
                                   THEN [intersection_idx |-> intersection_idx,
                                         days_difference |->
                                             current_date
                                             - iloc(d, intersection_idx).date,
                                         intersection_market_cap |->
                                             iloc(caps, intersection_idx),
                                         current_bitcoin_nav |-> current_bitcoin_nav,
                                         printed |-> "Intersection found"]
                                   ELSE [intersection_idx |-> NoIndex,
                                         days_difference |-> 0,
                                         intersection_market_cap |-> 0,
                                         current_bitcoin_nav |-> current_bitcoin_nav,
                                         printed |-> "Intersection found"]
                        /\ saved' = TRUE
                        /\ pc' = "charted"
                        /\ UNCHANGED raised
    /\ UNCHANGED <<main_vars, cleaner_vars, run_vars, load_vars, sheet_vars, upload_vars,
                   config, projection, mnav_report, sats, calls>>

InitCharts ==
    /\ exit_status = NoStatus
    /\ NotLoading
    /\ NotReadingSheet
    /\ NotUploading
    /\ NotAnalysing
    /\ pc = "chart"
    /\ raised = "none"
    /\ entry \in ChartFunctions
    /\ IF entry = "create_stock_nav_chart"
       THEN /\ config \in NavConfigs
            /\ \/ IsChartTable(chart_df, 0, MaxNavRows,
                               {1}, NavBalances, {1, 2}, {1}, {1, 2})
               \/ IsLongTable(chart_df)
       ELSE IF entry = "create_mnav_chart"
       THEN /\ config = EmptyConfig
            /\ \/ IsChartTable(chart_df, 0, MaxMnavRows,
                               {1}, {0, 1, 2}, {1}, {0, 1, 2}, {1})
               \/ chart_df = MnavExample
       ELSE /\ config = EmptyConfig
            /\ \/ IsChartTable(chart_df, 0, MaxAreaRows,
                               {1, 2}, {2, 3}, {1}, {1, 3}, {1})
               \/ chart_df = CrossingExample
    /\ projection = NoProjection
    /\ mnav_report = NoMnavReport
    /\ crossing = NoCrossing
    /\ local_df = << >>
    /\ sats = NoSeries
    /\ saved = FALSE
    /\ calls = 0

NextCharts == StockNavChart \/ MnavChart \/ StackedAreaChart

SpecCharts == InitCharts /\ [][NextCharts]_vars

(***************************************************************************)
(* Properties of the chart functions                                       *)
(***************************************************************************)
\* a float that is a number: neither nan nor infinite
isfinite(q) == q.den # 0

\* two floats are the same value (nan only with nan, inf only with inf)
SameFloat(p, q) ==
    IF p.den = 0 \/ q.den = 0
    THEN /\ p.den = 0 /\ q.den = 0
         /\ (p.num = 0) = (q.num = 0)
    ELSE p.num * q.den = q.num * p.den

\* C14: when the table given to create_mnav_chart has a row with nav = 0,
\* the function ends in an explicit division error, or the two ends of the
\* mNAV range it reports and the most recent mNAV it labels are numbers
\* (neither undefined nor infinite).
C14_MnavDivisionGuarded ==
    (/\ entry = "create_mnav_chart"
     /\ pc \in {"charted", "chart_failed"}
     /\ \E i \in 1..Len(chart_df) : nav(chart_df[i]) = 0)
    => \/ pc = "chart_failed" /\ raised = "DivisionUndefinedError"
       \/ /\ isfinite(mnav_report.mnav_min)
          /\ isfinite(mnav_report.mnav_max)
          /\ isfinite(mnav_report.most_recent_mnav)

\* C15: when the table given to create_stock_nav_chart has a single row, the
\* daily yield is zero and every projected NAV per share is the number
\* (last_balance * last_btc_price * k) / last_diluted_shares of the last
\* observed balance, never NaN.
C15_SingleRowZeroYield ==
    (/\ entry = "create_stock_nav_chart"
     /\ pc = "charted"
     /\ Len(chart_df) = 1)
    => /\ isfinite(projection.daily_btc_yield)
       /\ projection.daily_btc_yield.num = 0
       /\ \A k \in DOMAIN projection.future_nav_per_share :
          \A d \in 1..projection.projection_days :
              /\ isfinite(projection.future_nav_per_share[k][d])
              /\ SameFloat(projection.future_nav_per_share[k][d],
                           Frac(chart_df[1].btc_balance * chart_df[1].btc_prices * k,
                                chart_df[1].diluted_shares_outstanding))

\* the levels and the number of months that the config asks for
ConfiguredLevels ==
    IF "nav_reference_levels" \in DOMAIN config
    THEN Range(config["nav_reference_levels"]) ELSE {3, 5, 7}

ConfiguredMonths ==
    IF "projection_months" \in DOMAIN config
    THEN config["projection_months"] ELSE 2

\* the first row of the last 30 rows (of all rows if there are fewer)
WindowStart == IF Len(chart_df) > 30 THEN Len(chart_df) - 29 ELSE 1

\* C16: after create_stock_nav_chart on a table with rows, the projection
\* has projection_months * 30 days for each configured multiplier k, and its
\* value for day d is ((last_balance + y * d) * last_btc_price * k) /
\* last_diluted_shares, where y is the mean of the consecutive btc_balance
\* differences of the last 30 rows (all rows if fewer): their sum, the last
\* balance minus the first balance of the window, over their number
\* (undefined for a single row).
C16_ProjectionFormula ==
    (/\ entry = "create_stock_nav_chart"
     /\ pc = "charted")
    => LET n == Len(chart_df)
           last == chart_df[n]
           m == n - WindowStart
           delta == last.btc_balance - chart_df[WindowStart].btc_balance
       IN  /\ projection.projection_days = ConfiguredMonths * 30
           /\ SameFloat(projection.daily_btc_yield, Frac(delta, m))
           /\ DOMAIN projection.future_nav_per_share = ConfiguredLevels
           /\ \A k \in ConfiguredLevels :
                  /\ Len(projection.future_nav_per_share[k]) = ConfiguredMonths * 30
                  /\ \A d \in 1..(ConfiguredMonths * 30) :
                         SameFloat(projection.future_nav_per_share[k][d],
                                   Frac((last.btc_balance * m + delta * d)
                                            * last.btc_prices * k,
                                        m * last.diluted_shares_outstanding))

\* a table of 31 rows whose first row lies outside the yield window and has
\* its own balance has been projected with a yield that is not zero
C16_Witness ==
    /\ entry = "create_stock_nav_chart"
    /\ pc = "charted"
    /\ Len(chart_df) = 31
    /\ chart_df[1].btc_balance # chart_df[2].btc_balance
    /\ projection.daily_btc_yield.num # 0
    /\ projection.projection_days = 60

\* the market caps of the table and the NAV of its last row
MarketCaps ==
    [i \in 1..Len(chart_df) |->
        chart_df[i].diluted_shares_outstanding * chart_df[i].stock_prices]

CurrentNav ==
    chart_df[Len(chart_df)].btc_balance * chart_df[Len(chart_df)].btc_prices

\* the 0-based positions i >= 1 with market_cap[i-1] < current_nav <=
\* market_cap[i]
CrossingIndices ==
    { i \in 1..(Len(chart_df) - 1) :
        /\ MarketCaps[i] < CurrentNav
        /\ CurrentNav <= MarketCaps[i + 1] }

\* C17: when an upward crossing exists, the scan returns the greatest
\* crossing index and days_difference is the date of the last row minus the
\* date of the row at that index; for the market caps 10, 20, 30, 40 and a
\* current NAV of 25 the index is 2.
C17_CrossingIsMostRecent ==
    (/\ entry = "create_stacked_mc_btc_nav_chart"
     /\ pc = "charted")
    => /\ CrossingIndices # {} =>
              /\ crossing.intersection_idx \in CrossingIndices
              /\ \A i \in CrossingIndices : i <= crossing.intersection_idx
              /\ crossing.days_difference =
                     chart_df[Len(chart_df)].date
                         - chart_df[crossing.intersection_idx + 1].date
       /\ (MarketCaps = <<10, 20, 30, 40>> /\ CurrentNav = 25) =>
              crossing.intersection_idx = 2

\* the table with market caps 10, 20, 30, 40 and a current NAV of 25 has
\* been scanned: index 2, one day before the last row
C17_Witness ==
    /\ entry = "create_stacked_mc_btc_nav_chart"
    /\ pc = "charted"
    /\ MarketCaps = <<10, 20, 30, 40>>
    /\ CurrentNav = 25
    /\ crossing.intersection_idx = 2
    /\ crossing.days_difference = 1

\* C18: when the table has no upward crossing, the function does not report
\* a crossing: it does not print "Intersection found" with
\* days_difference = 0 or with intersection_market_cap = 0.
C18_NoCrossingNotReported ==
    (/\ entry = "create_stacked_mc_btc_nav_chart"
     /\ pc = "charted"
     /\ CrossingIndices = {})
    => ~(/\ crossing.printed = "Intersection found"
         /\ \/ crossing.days_difference = 0
            \/ crossing.intersection_market_cap = 0)

(***************************************************************************)
(* upload_company_charts and the upload_charts handler                     *)
(***************************************************************************)
\* largest number of PNG files in the company directory
MaxPngFiles == 3

\* the environment variables that upload_company_charts requires
RequiredEnvironment ==
    {"S3_BUCKET_NAME", "AWS_ACCESS_KEY_ID", "AWS_SECRET_ACCESS_KEY"}

\* what boto3.client does: it returns a client, raises NoCredentialsError,
\* or raises another Exception
ClientOutcomes == {"ok", "NoCredentialsError", "Exception"}

\* what s3_client.upload_file does for one file: it returns, raises
\* ClientError, or raises another Exception
UploadOutcomes == {"ok", "ClientError", "Exception"}

UploadFunctions == {"upload_company_charts", "upload_charts"}

\* an upload loop that catches ClientError only
except_upload_ClientError(exc) == exc = "ClientError"

\* the except clauses of the upload loop: ClientError and Exception
except_upload(exc) == exc \in {"ClientError", "Exception"}

\* a handler that catches ValueError only
except_handler_ValueError(exc) == exc = "ValueError"

\* the except clauses of upload_charts: ValueError and Exception
except_handler(exc) == exc \in {"ValueError", "Exception"}

InitUpload ==
    /\ exit_status = NoStatus
    /\ NotLoading
    /\ NotReadingSheet
    /\ NotCharting
    /\ NotAnalysing
    /\ pc = "upload"
    /\ raised = "none"
    /\ entry \in UploadFunctions
    /\ environ \in [RequiredEnvironment -> {"unset", "set"}]
    /\ client \in ClientOutcomes
    /\ \E n \in 0..MaxPngFiles : png_files \in [1..n -> UploadOutcomes]
    /\ attempts = << >>
    /\ uploaded_files = << >>
    /\ failed_files = << >>
    /\ upload_result = NoUploadResult

\* s3_uploader.py lines 37-50: the required variables are read and checked
ValidateEnvironment ==
    /\ pc = "upload"
    /\ IF \E v \in RequiredEnvironment : environ[v] = "unset"
       THEN /\ raised' = "ValueError"
            /\ pc' = "upload_raised"
       ELSE /\ pc' = "client"
            /\ UNCHANGED raised
    /\ UNCHANGED <<main_vars, cleaner_vars, run_vars, load_vars, sheet_vars, chart_vars,
                   upload_vars>>

\* lines 60-74: the client is created; NoCredentialsError becomes ValueError
CreateClient ==
    /\ pc = "client"
    /\ IF client = "ok"
       THEN /\ pc' = "glob"
            /\ UNCHANGED raised
       ELSE /\ raised' = IF client = "NoCredentialsError"
                         THEN "ValueError" ELSE client
            /\ pc' = "upload_raised"
    /\ UNCHANGED <<main_vars, cleaner_vars, run_vars, load_vars, sheet_vars, chart_vars,
                   upload_vars>>

\* lines 76-96: the PNG files are listed; without files the function returns
FindPngFiles ==
    /\ pc = "glob"
    /\ IF png_files = << >>
       THEN /\ upload_result' = [NoUploadResult EXCEPT !.returned = TRUE]
            /\ pc' = "returned"
       ELSE /\ pc' = "loop"
            /\ UNCHANGED upload_result
    /\ UNCHANGED <<main_vars, raised, cleaner_vars, run_vars, load_vars, sheet_vars,
                   chart_vars, environ, client, png_files, attempts,
                   uploaded_files, failed_files>>

\* lines 99-153: one pass of the loop over png_files
UploadFile ==
    /\ pc = "loop"
    /\ LET i == Len(attempts) + 1
       IN  /\ attempts' = Append(attempts, i)
           /\ IF png_files[i] = "ok"
              THEN /\ uploaded_files' = Append(uploaded_files, i)
                   /\ pc' = IF i = Len(png_files) THEN "summary" ELSE "loop"
                   /\ UNCHANGED <<failed_files, raised>>
              ELSE IF except_upload(png_files[i])
              THEN /\ failed_files' = Append(failed_files, i)
                   /\ pc' = IF i = Len(png_files) THEN "summary" ELSE "loop"
                   /\ UNCHANGED <<uploaded_files, raised>>
              ELSE /\ raised' = png_files[i]
                   /\ pc' = "upload_raised"
                   /\ UNCHANGED <<uploaded_files, failed_files>>
    /\ UNCHANGED <<main_vars, cleaner_vars, run_vars, load_vars, sheet_vars, chart_vars,
                   environ, client, png_files, upload_result>>

\* lines 155-181: the counts are taken and the result is returned
UploadSummary ==
    /\ pc = "summary"
    /\ upload_result' =
           [returned |-> TRUE,
            success_count |-> Len(uploaded_files),
            failure_count |-> Len(failed_files),
            uploaded_files |-> uploaded_files,
            failed_files |-> failed_files,
            error |-> "none"]
    /\ pc' = "returned"
    /\ UNCHANGED <<main_vars, raised, cleaner_vars, run_vars, load_vars, sheet_vars,
                   chart_vars, environ, client, png_files, attempts,
                   uploaded_files, failed_files>>

\* upload_handler.py lines 25-55: upload_charts returns the result of
\* upload_company_charts, or the result of its except clauses
HandlerReturn ==
    /\ entry = "upload_charts"
    /\ pc \in {"returned", "upload_raised"}
    /\ IF pc = "returned"
       THEN /\ pc' = "handler_returned"
            /\ UNCHANGED <<raised, upload_result>>
       ELSE IF except_handler(raised)
       THEN /\ upload_result' = [NoUploadResult EXCEPT !.returned = TRUE,
                                                      !.error = raised]
            /\ raised' = "none"
            /\ pc' = "handler_returned"
       ELSE /\ pc' = "handler_raised"
            /\ UNCHANGED <<raised, upload_result>>
    /\ UNCHANGED <<main_vars, cleaner_vars, run_vars, load_vars, sheet_vars, chart_vars,
                   environ, client, png_files, attempts, uploaded_files,
                   failed_files>>

NextUpload ==
    \/ ValidateEnvironment
    \/ CreateClient
    \/ FindPngFiles
    \/ UploadFile
    \/ UploadSummary
    \/ HandlerReturn

SpecUpload == InitUpload /\ [][NextUpload]_vars

(***************************************************************************)
(* Properties of the upload                                                *)
(***************************************************************************)
\* the required variables are set and the client can be created
ConfigurationValid ==
    /\ \A v \in RequiredEnvironment : environ[v] = "set"
    /\ client = "ok"

\* upload_company_charts has returned (to its caller or to the handler)
UploadReturned == pc \in {"returned", "handler_returned"}

\* C19: with a valid configuration upload_company_charts does not raise; the
\* files are attempted one after the other, each once, whatever the earlier
\* outcomes; every attempted file is in exactly one of uploaded_files and
\* failed_files, once; and when the function has returned, every file was
\* attempted and success_count + failure_count is the number of PNG files.
C19_EveryFileOnce ==
    ConfigurationValid =>
        /\ pc \notin {"upload_raised", "handler_raised"}
        /\ attempts = [k \in 1..Len(attempts) |-> k]
        /\ Len(attempts) <= Len(png_files)
        /\ \A k \in 1..Len(attempts) :
               Cardinality({ j \in 1..Len(uploaded_files) : uploaded_files[j] = k })
             + Cardinality({ j \in 1..Len(failed_files) : failed_files[j] = k }) = 1
        /\ Len(uploaded_files) + Len(failed_files) = Len(attempts)
        /\ \A j \in 1..Len(uploaded_files) : png_files[uploaded_files[j]] = "ok"
        /\ \A j \in 1..Len(failed_files) : png_files[failed_files[j]] # "ok"
        /\ UploadReturned =>
               /\ Len(attempts) = Len(png_files)
               /\ upload_result.success_count + upload_result.failure_count
                      = Len(png_files)
               /\ upload_result.uploaded_files = uploaded_files
               /\ upload_result.failed_files = failed_files

\* three files, the first fails with ClientError, the second is uploaded,
\* the third fails with another exception: all three were attempted
C19_Witness ==
    /\ ConfigurationValid
    /\ pc = "returned"
    /\ png_files = <<"ClientError", "ok", "Exception">>
    /\ attempts = <<1, 2, 3>>
    /\ upload_result.success_count = 1
    /\ upload_result.failure_count = 2

\* C20: upload_charts never raises: for every outcome of the uploader the
\* call ends by returning a result with success_count and failure_count,
\* both 0 and with the error when upload_company_charts raised, and those of
\* upload_company_charts otherwise.
C20_HandlerNeverRaises ==
    entry = "upload_charts" =>
        /\ pc # "handler_raised"
        /\ pc = "handler_returned" =>
               /\ upload_result.returned
               /\ raised = "none"
               /\ IF ConfigurationValid
                  THEN /\ upload_result.error = "none"
                       /\ upload_result.success_count = Len(uploaded_files)
                       /\ upload_result.failure_count = Len(failed_files)
                  ELSE /\ upload_result.error # "none"
                       /\ upload_result.success_count = 0
                       /\ upload_result.failure_count = 0

\* the client could not be created for a reason other than credentials, and
\* the handler returned the error
C20_Witness ==
    /\ entry = "upload_charts"
    /\ pc = "handler_returned"
    /\ \A v \in RequiredEnvironment : environ[v] = "set"
    /\ client = "Exception"
    /\ upload_result.returned
    /\ upload_result.error = "Exception"

(***************************************************************************)
(* Properties of the exit status                                           *)
(***************************************************************************)
\* C21: a company run whose data load succeeded (every run of Spec starts
\* from a loaded table) ends with exit status zero, also when a metric or a
\* chart step failed: a non-zero status needs a failed data load
C21_LoadedRunExitsZero ==
    exit_status # NoStatus => exit_status = 0

(***************************************************************************)
(* The cleaner and the chart functions called one after the other on one   *)
(* table, as run_company_analysis and the company scripts call them        *)
(***************************************************************************)
\* largest number of rows of a table given to a sequence of steps
MaxStepRows == 2

\* largest number of steps called on one table
MaxSteps == 2

\* sats per bitcoin
SatsPerBtc == 100000000

\* btc_balance values of the tables given to a sequence of steps
StepBalances == {0, 10}

\* a row of a loaded table on day d: one diluted share outstanding, so that
\* btc_per_diluted_share = btc_balance / diluted_shares_outstanding is the
\* balance
StepRow(d, b) ==
    ChartRow(d - 1, d, b, 1, 1, 1) @@ [btc_per_diluted_share |-> b]

\* t is a table of up to max daily rows
IsStepTable(t, max) ==
    \E n \in 0..max : \E f \in [1..n -> StepBalances] :
        t = [i \in 1..n |-> StepRow(i, f[i])]

\* the values of global_start_date and of mnav_start_date: on or before a
\* row of the table, and after its last row
GlobalStartDates == {1, 2, 9}
MnavStartDates == {1, 2}

GlobalConfigs ==
    {EmptyConfig} \cup { [global_start_date |-> g] : g \in GlobalStartDates }

MnavConfigs ==
    GlobalConfigs
    \cup { [mnav_start_date |-> m] : m \in MnavStartDates }
    \cup { [global_start_date |-> g, mnav_start_date |-> m] :
              g \in GlobalStartDates, m \in MnavStartDates }

\* config = None
NoConfig == [None |-> "None"]

\* the chart functions with a global_start_date filter
DateFilteredCharts ==
    {"create_stock_nav_chart", "create_mnav_chart",
     "create_stacked_mc_btc_nav_chart", "create_btc_per_share_chart"}

StepFunctions ==
    DateFilteredCharts
    \cup {"filter_and_deduplicate_data", "create_power_law_chart"}

\* the configs a step is called with
StepConfigs(f) ==
    IF f = "create_mnav_chart" THEN MnavConfigs
    ELSE IF f \in DateFilteredCharts THEN GlobalConfigs
    ELSE IF f = "create_power_law_chart" THEN {NoConfig, EmptyConfig}
    ELSE {EmptyConfig}

\* column in df.columns
has_column(t, column) == \A i \in 1..Len(t) : column \in DOMAIN t[i]

\* lines 803-851 and 970 of create_btc_per_share_chart: the optional date
\* filter (a copy, left without a row the function returns), the sats series
\* of every configured column the table has, and the image; no column is
\* added to a table
BtcPerShareChart ==
    /\ pc = "chart"
    /\ entry = "create_btc_per_share_chart"
    /\ LET global_start_date == get(config, "global_start_date", NoDate)
           filtered == global_start_date # NoDate
           d == IF filtered THEN date_filter(chart_df, global_start_date)
                ELSE chart_df
           btc_per_share_columns ==
               get(config, "btc_per_share_columns", <<"btc_per_diluted_share">>)
           plotted == { column \in Range(btc_per_share_columns) :
                           has_column(d, column) }
       IN  /\ local_df' = d
           /\ pc' = "charted"
           /\ IF filtered /\ d = << >>
              THEN UNCHANGED <<sats, saved>>
              ELSE /\ sats' = [column \in plotted |->
                                 [i \in 1..Len(d) |->
                                     IF d[i][column] = NaN THEN NaN
                                     ELSE d[i][column] * SatsPerBtc]]
                   /\ saved' = TRUE
    /\ UNCHANGED <<main_vars, cleaner_vars, run_vars, load_vars, sheet_vars,
                   upload_vars, raised, chart_df, config, projection,
                   mnav_report, crossing, calls>>

\* Step 1 of run_company_analysis on the table the chart functions get: the
\* views are new tables, the table itself is only read
CleanStep ==
    /\ pc = "chart"
    /\ entry = "filter_and_deduplicate_data"
    /\ LET res == filter_and_deduplicate_data(chart_df)
       IN  /\ valid_data' = res.valid_data
           /\ unique_data' = res.unique_data
           /\ duplicates' = res.duplicates
    /\ runs' = runs + 1
    /\ pc' = "charted"
    /\ UNCHANGED <<main_vars, run_vars, load_vars, sheet_vars, upload_vars,
                   chart_vars, raised, df>>

\* lines 296-361 of create_power_law_chart: the table is cleaned and fitted
\* again (the fit raises on an empty unique view), config.get is called at
\* line 304, before the `if config is None` of line 318, and the image is
\* written
PowerLawChart ==
    /\ pc = "chart"
    /\ entry = "create_power_law_chart"
    /\ LET exc == IF ChartRaisesOnData("power_law", chart_df) # "none"
                  THEN ChartRaisesOnData("power_law", chart_df)
                  ELSE IF config = NoConfig THEN "AttributeError"
                  ELSE "none"
       IN  IF exc # "none"
           THEN /\ raised' = exc
                /\ pc' = "chart_failed"
                /\ UNCHANGED saved
           ELSE /\ saved' = TRUE
                /\ pc' = "charted"
                /\ UNCHANGED raised
    /\ local_df' = filter_and_deduplicate_data(chart_df).unique_data
    /\ UNCHANGED <<main_vars, cleaner_vars, run_vars, load_vars, sheet_vars,
                   upload_vars, chart_df, config, projection, mnav_report,
                   crossing, sats, calls>>

\* the caller goes on to its next step with the same table: the calls of
\* _generate_default_charts and of a company run_analysis are in sequence
NextStep ==
    /\ pc = "charted"
    /\ calls < MaxSteps
    /\ calls' = calls + 1
    /\ entry' \in StepFunctions
    /\ config' \in StepConfigs(entry')
    /\ saved' = FALSE
    /\ pc' = "chart"
    /\ UNCHANGED <<main_vars, cleaner_vars, load_vars, sheet_vars, upload_vars,
                   raised, chart_generators, logs, reg, step, attempted,
                   failed, summary, chart_df, projection, mnav_report,
                   crossing, local_df, sats>>

InitSteps ==
    /\ exit_status = NoStatus
    /\ NotLoading
    /\ NotReadingSheet
    /\ NotUploading
    /\ NotAnalysing
    /\ pc = "chart"
    /\ raised = "none"
    /\ entry \in StepFunctions
    /\ config \in StepConfigs(entry)
    /\ IsStepTable(chart_df, MaxStepRows)
    /\ projection = NoProjection
    /\ mnav_report = NoMnavReport
    /\ crossing = NoCrossing
    /\ local_df = << >>
    /\ sats = NoSeries
    /\ saved = FALSE
    /\ calls = 1

NextSteps ==
    \/ StockNavChart
    \/ MnavChart
    \/ StackedAreaChart
    \/ BtcPerShareChart
    \/ CleanStep
    \/ PowerLawChart
    \/ NextStep

SpecSteps == InitSteps /\ [][NextSteps]_vars

\* the columns a loaded table has
LoadedColumns ==
    {"idx", "date", "btc_balance", "btc_prices", "stock_prices",
     "diluted_shares_outstanding", "btc_per_diluted_share"}

\* C22: every step of a sequence of cleaner and chart steps over one table,
\* with or without date filters, leaves the table with the same rows in the
\* same order, every column it had with the value it had (btc_balance,
\* stock_prices and btc_prices among them); a step only adds columns
C22_StepsKeepRows ==
    [][ /\ Len(chart_df') = Len(chart_df)
        /\ \A i \in 1..Len(chart_df) :
             \A c \in DOMAIN chart_df[i] :
                /\ c \in DOMAIN chart_df'[i]
                /\ chart_df'[i][c] = chart_df[i][c] ]_vars

\* a second step has ended on a table with rows, and the table has the
\* columns the steps added
C22_Witness ==
    /\ calls = MaxSteps
    /\ pc = "charted"
    /\ chart_df # << >>
    /\ \E c \in DOMAIN chart_df[1] : c \notin LoadedColumns

(***************************************************************************)
(* Properties of the fit                                                   *)
(***************************************************************************)
\* Steps 1 to 4 of run_company_analysis on table t
FitOf(t) ==
    LET u == filter_and_deduplicate_data(t).unique_data
        l == perform_log_transformation(u)
    IN  fit_power_law_regression(l.log_btc_balance_unique,
                                 l.log_btc_per_diluted_share_unique)

\* the rows of df after row k are valid rows whose btc_balance occurs in an
\* earlier valid row
RepeatsAfter(k) ==
    \A j \in (k + 1)..Len(df) :
        /\ RowIsValid(df[j])
        /\ \E i \in 1..(j - 1) :
              /\ RowIsValid(df[i])
              /\ df[i].btc_balance = df[j].btc_balance

\* the rows of df after row k are valid rows whose btc_balance occurs in an
\* earlier row, valid or not
RepeatsAnyRowAfter(k) ==
    \A j \in (k + 1)..Len(df) :
        /\ RowIsValid(df[j])
        /\ \E i \in 1..(j - 1) : df[i].btc_balance = df[j].btc_balance

\* C23 as stated: the fit result of a table is the fit result of the table
\* without its last rows, when these are valid rows whose btc_balance already
\* occurs earlier in the table
C23_RepeatedBalanceKeepsFit ==
    FitStepDone =>
        \A k \in 1..(Len(df) - 1) :
            RepeatsAnyRowAfter(k) => reg = FitOf(SubSeq(df, 1, k))

\* C23: the fit result (slope, intercept and with it a_coeff, r2,
\* correlation, or the exception of the fit) of a table is the fit result of
\* the table without its last rows, when these are valid rows whose
\* btc_balance already occurs in an earlier valid row
C23_DuplicateRowsKeepFit ==
    FitStepDone =>
        \A k \in 1..(Len(df) - 1) :
            RepeatsAfter(k) => reg = FitOf(SubSeq(df, 1, k))

\* a fit has returned on a table whose last row is valid, repeats the
\* balance of an earlier valid row and has another btc_per_diluted_share
C23_Witness ==
    /\ FitStepDone
    /\ reg.raised = "none"
    /\ Len(df) >= 2
    /\ RepeatsAfter(Len(df) - 1)
    /\ df[Len(df)].btc_per_diluted_share # df[1].btc_per_diluted_share

(***************************************************************************)
(* A company run from the feed to the metrics                              *)
(* (src/companies/lqwd/config.py)                                          *)
(***************************************************************************)
\* largest number of entries of the arrays of a feed
MaxFeedRows == 2

\* the dates and balances of the entries of a feed
FeedDates == {1, 2, 3}
FeedBalances == {1, 2}

\* entry i of every array of historicalData
FeedEntry(d, b) ==
    [dates |-> d, btc_balance |-> b, btc_prices |-> 1, stock_prices |-> 1,
     diluted_shares_outstanding |-> 1, market_cap_basic |-> 1]

\* h is the arrays of a feed of up to max entries, in any order of dates
IsFeed(h, max) ==
    \E n \in 0..max : \E f \in [1..n -> FeedDates \X FeedBalances] :
        h = [i \in 1..n |-> FeedEntry(f[i][1], f[i][2])]

\* the chart functions that read the last row of the table
MetricCharts == {"create_stock_nav_chart", "create_stacked_mc_btc_nav_chart"}

InitFeed ==
    /\ exit_status = NoStatus
    /\ NotReadingSheet
    /\ NotCharting
    /\ NotUploading
    /\ NotAnalysing
    /\ pc = "load"
    /\ raised = "none"
    /\ entry = "run_analysis"
    /\ data_url \in {"unset", "set"}
    /\ primary \in (IF data_url = "set" THEN PrimaryOutcomes ELSE {"none"})
    /\ fallback_file_path \in {"None", "given"}
    /\ file \in (IF fallback_file_path = "given" THEN FileStates ELSE {"missing"})
    /\ data = NoData
    /\ source = "none"
    /\ raised_at = "none"
    /\ IsFeed(hist_data, MaxFeedRows)

\* run_analysis gives the table of the loader, as it is, to
\* run_company_analysis, whose chart steps get it as processed_data['df']
StartChart ==
    /\ pc = "loaded"
    /\ entry' \in MetricCharts
    /\ calls' = 1
    /\ pc' = "chart"
    /\ UNCHANGED <<main_vars, cleaner_vars, load_vars, sheet_vars, upload_vars,
                   raised, chart_generators, logs, reg, step, attempted,
                   failed, summary, chart_df, config, projection,
                   mnav_report, crossing, local_df, sats, saved>>

NextFeed ==
    \/ FetchPrimary
    \/ ReadFallback
    \/ ProcessPayload
    \/ StartChart
    \/ StockNavChart
    \/ StackedAreaChart

SpecFeed == InitFeed /\ [][NextFeed]_vars

\* the rows of t are in ascending date order
IsAscending(t) ==
    \A i, j \in 1..Len(t) : i < j => t[i].date <= t[j].date

\* df['date'].max()
MaxDate(t) == CHOOSE m \in { t[i].date : i \in 1..Len(t) } :
                  \A i \in 1..Len(t) : t[i].date <= m

\* C24: the table a loader produced reaches the metric computations in
\* ascending date order, so the row the chart function takes as last
\* (iloc[-1]) is the row with the greatest date, df['date'].max()
C24_LastRowIsLatest ==
    (pc = "charted" /\ source # "none") =>
        /\ IsAscending(local_df)
        /\ iloc(local_df, 0 - 1).date = MaxDate(local_df)

(***************************************************************************)
(* Properties of the date filters                                          *)
(***************************************************************************)
\* the later of the date bounds that chart function f reads from config c;
\* NoDate, which is before every date, when it reads none
LaterBound(c, f) ==
    LET g == get(c, "global_start_date", NoDate)
        m == IF f = "create_mnav_chart" THEN get(c, "mnav_start_date", NoDate)
             ELSE NoDate
    IN  IF g >= m THEN g ELSE m

\* the index labels of the rows of t
Labels(t) == [i \in 1..Len(t) |-> t[i].idx]

\* the index labels of the rows of chart_df from the later bound on
Remaining ==
    LET kept(r) == r.date >= LaterBound(config, entry)
    IN  Labels(SelectSeq(chart_df, kept))

\* C25: a chart function that has returned computed over exactly the rows
\* with date >= global_start_date, create_mnav_chart over the rows with
\* date >= the later of global_start_date and mnav_start_date (the bounds
\* are inclusive and add up); its image is written when a row remains, and
\* when a bound is set and no row remains it has raised nothing and written
\* nothing
C25_DateBoundsInclusive ==
    (pc = "charted" /\ entry \in DateFilteredCharts) =>
        /\ Labels(local_df) = Remaining
        /\ Remaining # << >> => saved
        /\ (LaterBound(config, entry) # NoDate /\ Remaining = << >>) =>
              (raised = "none" /\ ~saved)
        /\ (entry = "create_mnav_chart" /\ saved) =>
              Len(mnav_report.mnav) = Len(Remaining)

\* create_mnav_chart has returned with both bounds set, mnav_start_date the
\* later one: the rows before it were dropped, the row on it was kept
C25_Witness ==
    /\ pc = "charted"
    /\ entry = "create_mnav_chart"
    /\ DOMAIN config = {"global_start_date", "mnav_start_date"}
    /\ config.mnav_start_date > config.global_start_date
    /\ local_df # << >>
    /\ Len(local_df) < Len(chart_df)
    /\ local_df[1].date = config.mnav_start_date
    /\ saved

(***************************************************************************)
(* Properties of the mNAV columns                                          *)
(***************************************************************************)
\* C26: in the table create_mnav_chart computes on, every row has
\* nav = btc_balance * btc_prices and fully_diluted_market_cap =
\* diluted_shares_outstanding * stock_prices, and every row with nav # 0 has
\* the number mnav = fully_diluted_market_cap / nav; the row with balance
\* 1000, bitcoin price 50000, 200 shares and stock price 500000 has nav 5e7,
\* fully_diluted_market_cap 1e8 and mnav 2
C26_MnavColumns ==
    (pc = "charted" /\ entry = "create_mnav_chart") =>
        \A i \in 1..Len(local_df) :
            LET r == local_df[i]
            IN  /\ r.nav = r.btc_balance * r.btc_prices
                /\ r.fully_diluted_market_cap =
                       r.diluted_shares_outstanding * r.stock_prices
                /\ r.nav # 0 =>
                      /\ isfinite(r.mnav)
                      /\ r.mnav = Frac(r.diluted_shares_outstanding * r.stock_prices,
                                       r.btc_balance * r.btc_prices)
                      /\ mnav_report.mnav[i] = r.mnav
                /\ (/\ r.btc_balance = 1000 /\ r.btc_prices = 50000
                    /\ r.diluted_shares_outstanding = 200
                    /\ r.stock_prices = 500000) =>
                      /\ r.nav = 50000000
                      /\ r.fully_diluted_market_cap = 100000000
                      /\ SameFloat(r.mnav, Frac(2, 1))

\* create_mnav_chart has returned on the row of the example
C26_Witness ==
    /\ pc = "charted"
    /\ entry = "create_mnav_chart"
    /\ chart_df = MnavExample
    /\ Len(local_df) = 1
    /\ SameFloat(mnav_report.most_recent_mnav, Frac(2, 1))

(***************************************************************************)
(* Properties of the date conversion                                       *)
(***************************************************************************)
\* the calendar dates that are 0, 1 and 2 days after 1899-12-30
EpochPlus == [n \in 0..2 |-> IF n = 0 THEN 18991230
                             ELSE IF n = 1 THEN 18991231 ELSE 19000101]

\* C27: after the type conversion a row whose date cell is the serial number
\* n >= 0 has the calendar date 1899-12-30 plus n days (1899-12-30 for 0,
\* the next day for the next serial), a row whose date cell is not a number
\* has no date, and after the invalid rows are dropped no row is left whose
\* date cell was not a number
C27_SerialToCalendarDate ==
    /\ pc = "converted" =>
          \A i \in 1..Len(sheet_df) :
              LET n == values.data_rows[i]["date"]
              IN  IF n = Text THEN sheet_df[i].cells["date"] = NaN
                  ELSE n >= 0 => sheet_df[i].cells["date"] = EpochPlus[n]
    /\ pc = "dropped" =>
          \A i \in 1..Len(sheet_df) :
              values.data_rows[sheet_df[i].idx + 1]["date"] # Text

(***************************************************************************)
(* Properties of create_power_law_chart                                    *)
(***************************************************************************)
\* C28: create_power_law_chart called with config = None on a table it can
\* fit returns and has written its image
C28_PowerLawChartWithoutConfig ==
    (/\ entry = "create_power_law_chart"
     /\ config = NoConfig
     /\ pc \in {"charted", "chart_failed"}
     /\ ChartRaisesOnData("power_law", chart_df) = "none") =>
        (pc = "charted" /\ raised = "none" /\ saved)

(***************************************************************************)
(* load_data of the Coinsilium and Locate scripts: the sheet loader, then  *)
(* the forward BTC-per-share column read from the sheet once more          *)
(***************************************************************************)
\* the header of the forward column
FWD_BTC_PER_SHARE_COLUMN == "fwd_btc_per_share"

\* cells of the forward column
ForwardCells == {Text, 1, 2}

\* the header rows of the company sheets: every column of the loader, with
\* or without the forward column
ForwardHeaders == {SheetColumns, SheetColumns \o <<FWD_BTC_PER_SHARE_COLUMN>>}

\* a data row under the header h: d in the date column, b in the balance
\* column, w in the forward column and 1 elsewhere
ForwardRow(h, d, b, w) ==
    [c \in { h[k] : k \in 1..Len(h) } |->
        IF c = "date" THEN d
        ELSE IF c = "btc_balance" THEN b
        ELSE IF c = FWD_BTC_PER_SHARE_COLUMN THEN w
        ELSE 1]

\* v is what the request for a company sheet returns, with at most max rows
IsForwardSheet(v, max) ==
    \E h \in ForwardHeaders :
    \E n \in 0..max :
    \E f \in [1..n -> DateCells \X NumberCells \X ForwardCells] :
        v = [headers |-> h,
             data_rows |-> [i \in 1..n |->
                               ForwardRow(h, f[i][1], f[i][2], f[i][3])]]

\* series[label]: the value of the row of t with index label `label`, NaN
\* when t has no such row
at_label(t, label, column) ==
    IF \E i \in 1..Len(t) : t[i].idx = label
    THEN (CHOOSE r \in Range(t) : r.idx = label).cells[column]
    ELSE NaN

InitForward ==
    /\ exit_status = NoStatus
    /\ NotLoading
    /\ NotCharting
    /\ NotUploading
    /\ NotAnalysing
    /\ pc = "sheet"
    /\ raised = "none"
    /\ entry = "load_data"
    /\ columns = [btc_per_share_column |-> "btc_per_share",
                  btc_price_column |-> "btc_price"]
    /\ IsForwardSheet(values, MaxSheetRows)
    /\ sheet_df = << >>
    /\ sheet_error = NoSheetError

\* lines 40-48 of load_data: the sheet is read again as raw_df, and when it
\* has the forward column, df[column] = pd.to_numeric(raw_df[column]) gives
\* every row of df the value of the row of raw_df with the same index label
AttachForward ==
    /\ pc = "sheet_loaded"
    /\ entry = "load_data"
    /\ LET raw_df == sheet_to_dataframe(values)
       IN  sheet_df' =
               IF FWD_BTC_PER_SHARE_COLUMN \in Range(values.headers)
               THEN [i \in 1..Len(sheet_df) |->
                       [sheet_df[i] EXCEPT !.cells =
                           [c \in DOMAIN sheet_df[i].cells |->
                               IF c = FWD_BTC_PER_SHARE_COLUMN
                               THEN to_numeric(at_label(raw_df, sheet_df[i].idx,
                                                        FWD_BTC_PER_SHARE_COLUMN))
                               ELSE sheet_df[i].cells[c]]]]
               ELSE sheet_df
    /\ pc' = "data_loaded"
    /\ UNCHANGED <<main_vars, raised, cleaner_vars, run_vars, load_vars, chart_vars,
                   upload_vars, columns, values, sheet_error>>

NextForward ==
    \/ CheckColumns
    \/ ConvertTypes
    \/ DropInvalid
    \/ SortAndDerive
    \/ AttachForward

SpecForward == InitForward /\ [][NextForward]_vars

\* sheet row j is a row the loader keeps, and row r of the cleaned table has
\* its date and its btc_balance
CameFrom(r, j) ==
    LET s == values.data_rows[j]
    IN  /\ \A c \in DOMAIN s : c # FWD_BTC_PER_SHARE_COLUMN => s[c] # Text
        /\ convert_google_sheets_date(to_numeric(s["date"])) = r.cells["date"]
        /\ to_numeric(s["btc_balance"]) = r.cells["btc_balance"]

\* C29: after load_data, the forward value of every row of the cleaned
\* table is the forward value of a sheet row that the row's date and
\* btc_balance came from, also when rows were dropped or were not in
\* ascending date order
C29_ForwardValueOfSameRow ==
    (pc = "data_loaded"
     /\ FWD_BTC_PER_SHARE_COLUMN \in Range(values.headers)) =>
        \A i \in 1..Len(sheet_df) :
            \E j \in 1..Len(values.data_rows) :
                /\ CameFrom(sheet_df[i], j)
                /\ sheet_df[i].cells[FWD_BTC_PER_SHARE_COLUMN] =
                       to_numeric(values.data_rows[j][FWD_BTC_PER_SHARE_COLUMN])

(***************************************************************************)
(* src/h100/analysis.py: the cleaner of the standalone H100 script         *)
(***************************************************************************)
\* (df['btc_balance'] > 0) & (df['btc_per_diluted_share'] > 0), for one row
h100_ValidMask(r) ==
    /\ gt0(r.btc_balance)
    /\ gt0(r.btc_per_diluted_share)

\* the (btc_balance, btc_per_diluted_share) pair of a row: the subset of
\* duplicated and drop_duplicates
h100_subset(r) == <<r.btc_balance, r.btc_per_diluted_share>>

\* valid_data.duplicated(subset=[...]): True for a row whose pair occurs in
\* an earlier row
h100_duplicated(v) ==
    [k \in 1..Len(v) |->
        \E j \in 1..(k - 1) : h100_subset(v[j]) = h100_subset(v[k])]

\* valid_data.drop_duplicates(subset=[...]): the rows that are not marked
h100_drop_duplicates(v) ==
    LET marked == h100_duplicated(v)
        Keep(r) == \E k \in 1..Len(v) : v[k] = r /\ ~marked[k]
    IN  SelectSeq(v, Keep)

h100_filter_and_deduplicate_data(t) ==
    LET v == SelectSeq(t, h100_ValidMask)
    IN  [valid_data |-> v,
         unique_data |-> h100_drop_duplicates(v),
         duplicates |-> h100_duplicated(v)]

InitH100 ==
    /\ exit_status = NoStatus
    /\ NotLoading
    /\ NotReadingSheet
    /\ NotCharting
    /\ NotUploading
    /\ pc = "start"
    /\ IsInputTable(df, MaxRows)
    /\ valid_data = << >>
    /\ unique_data = << >>
    /\ duplicates = << >>
    /\ raised = "none"
    /\ runs = 0
    /\ entry = "h100_analysis"
    /\ chart_generators = None
    /\ logs = NoLogs
    /\ reg = NoReg
    /\ step = 0
    /\ attempted = << >>
    /\ failed = {}
    /\ summary = FALSE

\* valid_data, unique_data, duplicates = filter_and_deduplicate_data(df)
h100_Clean ==
    /\ UNCHANGED <<main_vars, load_vars, sheet_vars, chart_vars, upload_vars>>
    /\ pc = "start"
    /\ entry = "h100_analysis"
    /\ LET res == h100_filter_and_deduplicate_data(df)
       IN  /\ valid_data' = res.valid_data
           /\ unique_data' = res.unique_data
           /\ duplicates' = res.duplicates
    /\ runs' = runs + 1
    /\ pc' = "cleaned"
    /\ UNCHANGED <<df, raised, run_vars>>

NextH100 == h100_Clean

SpecH100 == InitH100 /\ [][NextH100]_vars

\* C30: for every record table the H100 cleaner returns the 'valid' view and
\* the 'unique' view that the shared cleaner returns for the same table, and
\* its 'unique' view has at most one row per distinct btc_balance
C30_H100CleanerIsSharedCleaner ==
    (pc = "cleaned" /\ entry = "h100_analysis") =>
        /\ valid_data = filter_and_deduplicate_data(df).valid_data
        /\ unique_data = filter_and_deduplicate_data(df).unique_data
        /\ \A i, j \in 1..Len(unique_data) :
               unique_data[i].btc_balance = unique_data[j].btc_balance => i = j

====
